---- MODULE Spec2Model ----
(***************************************************************************)
(* Model of orchestra-api: the Workshop resource mapper                    *)
(* (api/services/workshop_service.py), the Workshop routes                 *)
(* (api/routes/workshops.py) and the token issuer (api/core/auth.py,       *)
(* api/routes/auth.py).                                                    *)
(*                                                                         *)
(* Conventions.  A Python dict is a function with a domain of strings      *)
(* (a record); dict.get is Get.  Python's None, where a string may stand,  *)
(* is the string None, which no sample string equals.  An Optional object  *)
(* of the domain model (storage, ingress, status) is a set with no element *)
(* (None) or one element.  A call that raises yields [raised |-> type].    *)
(***************************************************************************)
EXTENDS Integers, Sequences, FiniteSets, TLC

VARIABLES
    pydantic,    \* major version of the installed pydantic: "v1" or "v2"
    pyjwt,       \* the installed PyJWT, which the repository does not pin:
                 \* "<2.10" or ">=2.10" (jwt.decode validates the sub claim)
    settings,    \* the Settings instance get_settings() caches at start
    mpc,         \* mapper run: "start", "crd", "done"
    origin,      \* where the document of the mapper run came from
    workshop,    \* mapper run: the WorkshopCreate given to _to_kubernetes_crd,
                 \* an Optional (None in a run that maps a received document)
    namespace,   \* mapper run: the namespace given to _to_kubernetes_crd
    crd,         \* mapper run: the document, an Optional
    result,      \* mapper run: what _from_kubernetes_crd returned, an Optional
    now,         \* the clock, in minutes
    ticks,       \* how many times the clock has advanced
    tokens,      \* the tokens the service has issued
    last,        \* the latest call of the token issuer and its outcome
    cluster,     \* the Workshop documents the backend holds, in list order
    req,         \* the Workshop request being served
    pg,          \* a call of GET /workshops/ on a given service result
    inflight,    \* the Workshop requests being served concurrently, each with
                 \* the local state of its handler
    callback     \* the OAuth callback being served: where its handler is
                 \* suspended, and what the provider has answered so far

mapperVars == <<mpc, origin, workshop, namespace, crd, result>>
authVars == <<now, ticks, tokens, last>>
dirVars == <<cluster, req, pg>>
vars == <<pydantic, pyjwt, settings, mapperVars, authVars, dirVars, inflight, callback>>

----------------------------------------------------------------------------
(* Python values *)

None == "<None>"

EmptyDict == [k \in {} |-> None]

\* dict.get(k, dflt)
Get(d, k, dflt) == IF k \in DOMAIN d THEN d[k] ELSE dflt

\* truth value of an Optional[str]: None and "" are false
Truthy(s) == s # None /\ s # ""

Raised(e) == [raised |-> e]

IsRaised(r) == "raised" \in DOMAIN r

\* the element of a present Optional object
The(o) == CHOOSE x \in o : TRUE

\* v is None, for a value that is a str, a dict, a list or None: a key of a
\* document that is present with the value null
IsNone(v) == ToString(v) = ToString(None)

\* calling .get on None, and iterating over None
NoneHasNoGet ==
    [raised |-> "AttributeError",
     message |-> "'NoneType' object has no attribute 'get'"]

NoneNotIterable ==
    [raised |-> "TypeError", message |-> "'NoneType' object is not iterable"]

----------------------------------------------------------------------------
(* api/services/workshop_service.py: constants *)

GROUP == "orchestra.io"

VERSION == "v1"

PLURAL == "workshops"

----------------------------------------------------------------------------
(* api/models/workshop.py: the pydantic models.  A field declared with an  *)
(* alias is populated from the alias only (no populate_by_name in the      *)
(* models' configuration); a keyword that names no field or alias is       *)
(* ignored; a field that is not Optional fails validation when it is given *)
(* None, whether or not it has a default.                                  *)

\* WorkshopPhase(v) is v for a member of the enumeration and raises ValueError
\* for any other value
Phases == {"Pending", "Creating", "Ready", "Running", "Terminating", "Failed"}

WorkshopResources(kw) ==
    IF \E k \in {"cpu", "memory", "cpuRequest", "memoryRequest"} \cap DOMAIN kw :
          kw[k] = None
    THEN Raised("ValidationError")
    ELSE [cpu            |-> Get(kw, "cpu", "1"),
          memory         |-> Get(kw, "memory", "2Gi"),
          cpu_request    |-> Get(kw, "cpuRequest", "500m"),
          memory_request |-> Get(kw, "memoryRequest", "1Gi")]

WorkshopStorage(kw) ==
    IF "size" \in DOMAIN kw /\ kw.size = None
    THEN Raised("ValidationError")
    ELSE [size          |-> Get(kw, "size", "10Gi"),
          storage_class |-> Get(kw, "storageClass", None)]

\* annotations: Dict[str, str]: neither the dict nor a value of it is None
WorkshopIngress(kw) ==
    IF "annotations" \in DOMAIN kw /\ IsNone(kw.annotations)
    THEN Raised("ValidationError")
    ELSE IF /\ "annotations" \in DOMAIN kw
            /\ \E k \in DOMAIN kw.annotations : kw.annotations[k] = None
    THEN Raised("ValidationError")
    ELSE [host        |-> Get(kw, "host", None),
          annotations |-> Get(kw, "annotations", EmptyDict)]

\* storage and ingress are Optionals of a model instance, resources is an
\* instance
WorkshopCreate(kw) ==
    IF Get(kw, "name", None) = None
    THEN Raised("ValidationError")
    ELSE IF \E k \in {"duration", "image"} \cap DOMAIN kw : kw[k] = None
    THEN Raised("ValidationError")
    ELSE IF "resources" \in DOMAIN kw /\ IsNone(kw.resources)
    THEN Raised("ValidationError")
    ELSE [name      |-> kw.name,
          duration  |-> Get(kw, "duration", "4h"),
          image     |-> Get(kw, "image", "rocker/rstudio:latest"),
          resources |-> Get(kw, "resources", WorkshopResources(EmptyDict)),
          storage   |-> Get(kw, "storage", {}),
          ingress   |-> Get(kw, "ingress", {})]

\* last_transition_time: Optional[datetime] = Field(alias=...) has no
\* default: pydantic v1 reads it as default None, pydantic v2 as required
WorkshopCondition(pyd, kw) ==
    IF Get(kw, "type", None) = None \/ Get(kw, "status", None) = None
    THEN Raised("ValidationError")
    ELSE IF pyd = "v2" /\ "lastTransitionTime" \notin DOMAIN kw
    THEN Raised("ValidationError")
    ELSE [type                 |-> kw.type,
          status               |-> kw.status,
          reason               |-> Get(kw, "reason", None),
          message              |-> Get(kw, "message", None),
          last_transition_time |-> Get(kw, "lastTransitionTime", None)]

\* created_at and expires_at: as last_transition_time
WorkshopStatus(pyd, kw) ==
    IF Get(kw, "phase", None) \notin Phases
    THEN Raised("ValidationError")
    ELSE IF pyd = "v2" /\ ~({"createdAt", "expiresAt"} \subseteq DOMAIN kw)
    THEN Raised("ValidationError")
    ELSE IF "conditions" \in DOMAIN kw /\ IsNone(kw.conditions)
    THEN Raised("ValidationError")
    ELSE IF /\ "conditions" \in DOMAIN kw
            /\ \E i \in 1..Len(kw.conditions) : IsNone(kw.conditions[i])
    THEN Raised("ValidationError")
    ELSE [phase      |-> kw.phase,
          url        |-> Get(kw, "url", None),
          created_at |-> Get(kw, "createdAt", None),
          expires_at |-> Get(kw, "expiresAt", None),
          conditions |-> Get(kw, "conditions", <<>>)]

WorkshopResponse(kw) ==
    IF Get(kw, "name", None) = None \/ Get(kw, "namespace", None) = None
    THEN Raised("ValidationError")
    ELSE IF "spec" \notin DOMAIN kw \/ IsNone(kw.spec)
    THEN Raised("ValidationError")
    ELSE [name       |-> kw.name,
          namespace  |-> kw.namespace,
          spec       |-> kw.spec,
          status     |-> Get(kw, "status", {}),
          created_at |-> Get(kw, "created_at", None),
          updated_at |-> Get(kw, "updated_at", None)]

----------------------------------------------------------------------------
(* Timestamp strings.  A datetime is denoted by the ISO string            *)
(* datetime.fromisoformat accepts for it; the string operations the code   *)
(* uses are tabulated over the sample strings.                             *)

TsZ == "2025-01-01T00:00:00Z"

TsUtc == "2025-01-01T00:00:00+00:00"

TsOffset == "2025-01-01T02:00:00+02:00"

TsJunkZ == "not-a-dateZ"

TimeStrings == {TsZ, TsUtc, TsOffset, "not-a-date", TsJunkZ, ""}

\* dt_str.endswith('Z')
EndsWithZ(s) == s \in {TsZ, TsJunkZ}

\* dt_str[:-1] + '+00:00'
ReplaceZ(s) == IF s = TsZ THEN TsUtc ELSE "not-a-date+00:00"

\* datetime.fromisoformat(s) returns a datetime; otherwise ValueError
IsIsoFormat(s) == s \in {TsUtc, TsOffset}

----------------------------------------------------------------------------
(* api/services/workshop_service.py: the resource mapper *)

\* _to_kubernetes_crd writing storageClass whether or not it is set
_to_kubernetes_crd_nulls(w, ns) ==
    LET storage ==
            IF w.storage # {}
            THEN [storage |->
                    [size |-> The(w.storage).size,
                     storageClass |-> The(w.storage).storage_class]]
            ELSE EmptyDict
        ingress ==
            IF w.ingress # {}
            THEN [ingress |->
                    (IF Truthy(The(w.ingress).host)
                     THEN [host |-> The(w.ingress).host]
                     ELSE EmptyDict)
                    @@ (IF DOMAIN The(w.ingress).annotations # {}
                        THEN [annotations |-> The(w.ingress).annotations]
                        ELSE EmptyDict)]
            ELSE EmptyDict
    IN  [apiVersion |-> <<GROUP, "/", VERSION>>,
         kind       |-> "Workshop",
         metadata   |-> [name      |-> w.name,
                         namespace |-> ns,
                         labels    |-> [k \in {"app", "managed-by"} |->
                                          IF k = "app" THEN "orchestra-operator"
                                                       ELSE "orchestra-api"]],
         spec       |-> [name      |-> w.name,
                         duration  |-> w.duration,
                         image     |-> w.image,
                         resources |-> [cpu           |-> w.resources.cpu,
                                        memory        |-> w.resources.memory,
                                        cpuRequest    |-> w.resources.cpu_request,
                                        memoryRequest |-> w.resources.memory_request]]
                        @@ storage @@ ingress]

_to_kubernetes_crd(w, ns) ==
    LET storage ==
            IF w.storage # {}
            THEN [storage |->
                    [size |-> The(w.storage).size]
                    @@ (IF Truthy(The(w.storage).storage_class)
                        THEN [storageClass |-> The(w.storage).storage_class]
                        ELSE EmptyDict)]
            ELSE EmptyDict
        ingress ==
            IF w.ingress # {}
            THEN [ingress |->
                    (IF Truthy(The(w.ingress).host)
                     THEN [host |-> The(w.ingress).host]
                     ELSE EmptyDict)
                    @@ (IF DOMAIN The(w.ingress).annotations # {}
                        THEN [annotations |-> The(w.ingress).annotations]
                        ELSE EmptyDict)]
            ELSE EmptyDict
    IN  [apiVersion |-> <<GROUP, "/", VERSION>>,
         kind       |-> "Workshop",
         metadata   |-> [name      |-> w.name,
                         namespace |-> ns,
                         labels    |-> [k \in {"app", "managed-by"} |->
                                          IF k = "app" THEN "orchestra-operator"
                                                       ELSE "orchestra-api"]],
         spec       |-> [name      |-> w.name,
                         duration  |-> w.duration,
                         image     |-> w.image,
                         resources |-> [cpu           |-> w.resources.cpu,
                                        memory        |-> w.resources.memory,
                                        cpuRequest    |-> w.resources.cpu_request,
                                        memoryRequest |-> w.resources.memory_request]]
                        @@ storage @@ ingress]

_parse_datetime(dt_str) ==
    IF ~Truthy(dt_str)
    THEN None
    ELSE LET s == IF EndsWithZ(dt_str) THEN ReplaceZ(dt_str) ELSE dt_str
         IN  IF IsIsoFormat(s) THEN s ELSE None

\* spec.get(k, default) is the default only when k is absent: a key that
\* is present with the value null reaches the model as None.  The three
\* sub-models are built in order, then the WorkshopCreate; the first
\* exception ends the call.
_parse_spec(spec) ==
    IF IsNone(spec) THEN NoneHasNoGet
    ELSE
    LET res == Get(spec, "resources", EmptyDict)
        resources ==
            IF IsNone(res) THEN NoneHasNoGet
            ELSE WorkshopResources(
                    [cpu            |-> Get(res, "cpu", "1"),
                     memory         |-> Get(res, "memory", "2Gi"),
                     cpu_request    |-> Get(res, "cpuRequest", "500m"),
                     memory_request |-> Get(res, "memoryRequest", "1Gi")])
        storage ==
            IF "storage" \notin DOMAIN spec THEN {}
            ELSE IF IsNone(spec.storage) THEN {NoneHasNoGet}
            ELSE {WorkshopStorage(
                    [size          |-> Get(spec.storage, "size", "10Gi"),
                     storage_class |-> Get(spec.storage, "storageClass", None)])}
        ingress ==
            IF "ingress" \notin DOMAIN spec THEN {}
            ELSE IF IsNone(spec.ingress) THEN {NoneHasNoGet}
            ELSE {WorkshopIngress(
                    [host        |-> Get(spec.ingress, "host", None),
                     annotations |-> Get(spec.ingress, "annotations", EmptyDict)])}
    IN  IF IsRaised(resources) THEN resources
        ELSE IF storage # {} /\ IsRaised(The(storage)) THEN The(storage)
        ELSE IF ingress # {} /\ IsRaised(The(ingress)) THEN The(ingress)
        ELSE WorkshopCreate(
                [name      |-> Get(spec, "name", None),
                 duration  |-> Get(spec, "duration", "4h"),
                 image     |-> Get(spec, "image", "rocker/rstudio:latest"),
                 resources |-> resources,
                 storage   |-> storage,
                 ingress   |-> ingress])

\* The status block is mapped when it is truthy (neither absent, null nor
\* empty): its conditions in order, then its phase, then the WorkshopStatus.
\* The arguments of WorkshopResponse are evaluated in order: metadata.get
\* comes before _parse_spec.  The first exception ends the call.
_from_kubernetes_crd(pyd, doc) ==
    LET metadata == Get(doc, "metadata", EmptyDict)
        spec     == Get(doc, "spec", EmptyDict)
        status   == Get(doc, "status", EmptyDict)
        present  == ~IsNone(status) /\ DOMAIN status # {}
        wire     == Get(status, "conditions", <<>>)
        conditions ==
            [i \in 1..Len(wire) |->
                IF IsNone(wire[i]) THEN NoneHasNoGet
                ELSE WorkshopCondition(pyd,
                    [type                 |-> Get(wire[i], "type", None),
                     status               |-> Get(wire[i], "status", None),
                     reason               |-> Get(wire[i], "reason", None),
                     message              |-> Get(wire[i], "message", None),
                     last_transition_time |-> Get(wire[i], "lastTransitionTime", None)])]
        failing == {i \in 1..Len(wire) : IsRaised(conditions[i])}
        phase == Get(status, "phase", "Pending")
        built ==
            WorkshopStatus(pyd,
                [phase      |-> phase,
                 url        |-> Get(status, "url", None),
                 created_at |-> _parse_datetime(Get(status, "createdAt", None)),
                 expires_at |-> _parse_datetime(Get(status, "expiresAt", None)),
                 conditions |-> conditions])
        parsed == _parse_spec(spec)
    IN  IF present /\ IsNone(wire)
        THEN NoneNotIterable
        ELSE IF present /\ failing # {}
        THEN conditions[CHOOSE i \in failing : \A j \in failing : i <= j]
        ELSE IF present /\ phase \notin Phases
        THEN Raised("ValueError")
        ELSE IF present /\ IsRaised(built)
        THEN built
        ELSE IF IsNone(metadata)
        THEN NoneHasNoGet
        ELSE IF IsRaised(parsed)
        THEN parsed
        ELSE WorkshopResponse(
                [name       |-> Get(metadata, "name", None),
                 namespace  |-> Get(metadata, "namespace", None),
                 spec       |-> parsed,
                 status     |-> IF present THEN {built} ELSE {},
                 created_at |-> _parse_datetime(Get(metadata, "creationTimestamp", None)),
                 updated_at |-> _parse_datetime(Get(metadata, "resourceVersion", None))])

----------------------------------------------------------------------------
(* api/core/config.py: settings *)

access_token_expire_minutes == 30

refresh_token_expire_days == 7

\* the OAuth fields of a Settings instance built from an empty environment
DefaultSettings == [oauth_client_id |-> None, oauth_provider |-> "github"]

----------------------------------------------------------------------------
(* api/core/auth.py.  A token is [payload, sig]: the claims it carries and *)
(* the state of its signature, "valid" for an HMAC under                   *)
(* settings.secret_key over this payload.  Every other sig is a token not  *)
(* produced by jwt.encode under the secret: "flipped" (a bit of the        *)
(* signature changed), "stale" (payload changed, signature kept),          *)
(* "otherkey" (signed under another key), "malformed" (not a JWT).         *)

HTTPException(code, detail) ==
    [raised |-> "HTTPException", status_code |-> code, detail |-> detail]

\* jwt.encode(payload, settings.secret_key, algorithm=settings.algorithm)
jwt_encode(payload) == [payload |-> payload, sig |-> "valid"]

\* PyJWT from 2.10 on validates the sub claim of a decoded payload: a sub
\* that is present and is not a string (null) is refused
SubjectRefused(payload) ==
    pyjwt = ">=2.10" /\ "sub" \in DOMAIN payload /\ payload.sub = None

\* jwt.decode(token, settings.secret_key, algorithms=[settings.algorithm]):
\* format and signature first, then the exp claim against the clock, then
\* (PyJWT from 2.10 on) the sub claim
jwt_decode(token, t) ==
    IF token.sig = "malformed" THEN Raised("DecodeError")
    ELSE IF token.sig # "valid" THEN Raised("InvalidSignatureError")
    ELSE IF "exp" \in DOMAIN token.payload /\ token.payload.exp <= t
    THEN Raised("ExpiredSignatureError")
    ELSE IF SubjectRefused(token.payload) THEN Raised("InvalidSubjectError")
    ELSE token.payload

\* expires_delta is an Optional; timedelta(0) is false
create_access_token(data, expires_delta, t) ==
    LET expire == IF expires_delta # {} /\ The(expires_delta) # 0
                  THEN t + The(expires_delta)
                  ELSE t + access_token_expire_minutes
    IN  jwt_encode([exp |-> expire, type |-> "access"] @@ data)

create_refresh_token(data, t) ==
    LET expire == t + refresh_token_expire_days * 24 * 60
    IN  jwt_encode([exp |-> expire, type |-> "refresh"] @@ data)

\* The module imported as jwt is PyJWT, which defines ExpiredSignatureError
\* and no JWTError: when jwt.decode raises anything but
\* ExpiredSignatureError, evaluating the second except clause raises
\* AttributeError.
verify_token(token, t) ==
    LET payload == jwt_decode(token, t)
    IN  IF ~IsRaised(payload) THEN payload
        ELSE IF payload.raised = "ExpiredSignatureError"
        THEN HTTPException(401, "Token has expired")
        ELSE Raised("AttributeError")

\* self.scopes = scopes or []
TokenData(username, user_id, scopes) ==
    [username |-> username, user_id |-> user_id,
     scopes |-> IF IsNone(scopes) THEN <<>> ELSE scopes]

\* credentials is an Optional token: HTTPBearer() answers 403 itself when the
\* request carries no bearer credentials
get_current_user(credentials, t) ==
    IF credentials = {} THEN HTTPException(403, "Not authenticated")
    ELSE LET payload == verify_token(The(credentials), t)
         IN  IF IsRaised(payload) THEN payload
             ELSE IF Get(payload, "sub", None) = None
             THEN HTTPException(401, "Could not validate credentials")
             ELSE TokenData(payload.sub, Get(payload, "user_id", None),
                            Get(payload, "scopes", <<>>))

----------------------------------------------------------------------------
(* api/routes/auth.py *)

\* refresh_token with the check of the type claim left out
refresh_token_any_type(token, t) ==
    LET payload == verify_token(token, t)
        failed  == [response |-> HTTPException(401, "Invalid refresh token"),
                    issued |-> {}]
    IN  IF IsRaised(payload) THEN failed
        ELSE IF "sub" \notin DOMAIN payload THEN failed
        ELSE LET access_token == create_access_token([sub |-> payload.sub], {}, t)
             IN  [response |-> [access_token |-> access_token,
                                token_type   |-> "bearer",
                                expires_in   |-> access_token_expire_minutes * 60],
                  issued |-> {access_token}]

\* POST /auth/refresh: the response, and the token it issued (an Optional)
refresh_token(token, t) ==
    LET payload == verify_token(token, t)
        failed  == [response |-> HTTPException(401, "Invalid refresh token"),
                    issued |-> {}]
    IN  IF IsRaised(payload) THEN failed
        ELSE IF Get(payload, "type", None) # "refresh" THEN failed
        ELSE IF "sub" \notin DOMAIN payload THEN failed
        ELSE LET access_token == create_access_token([sub |-> payload.sub], {}, t)
             IN  [response |-> [access_token |-> access_token,
                                token_type   |-> "bearer",
                                expires_in   |-> access_token_expire_minutes * 60],
                  issued |-> {access_token}]

\* GET /auth/me
get_current_user_info(credentials, t) ==
    LET current_user == get_current_user(credentials, t)
    IN  IF IsRaised(current_user) THEN current_user
        ELSE [username |-> current_user.username,
              user_id  |-> current_user.user_id,
              scopes   |-> current_user.scopes]

----------------------------------------------------------------------------
(* The custom-object API behind CustomObjectsApi, as the service calls it. *)
(* An answer is [kind |-> "ok", value] or an exception: ApiException with  *)
(* its status, or another error of the client (a timeout).                 *)

Ok(v) == [kind |-> "ok", value |-> v]

ApiException(st, msg) ==
    [kind |-> "raise", raised |-> "ApiException", status |-> st, message |-> msg]

ClientError(msg) ==
    [kind |-> "raise", raised |-> "MaxRetryError", message |-> msg]

\* indices of the documents of a namespace, and of one name in it
InNamespace(cl, ns) == {i \in 1..Len(cl) : cl[i].metadata.namespace = ns}

Named(cl, ns, name) == {i \in InNamespace(cl, ns) : cl[i].metadata.name = name}

\* a sequence without its i-th element
Without(cl, i) == [j \in 1..(Len(cl) - 1) |-> IF j < i THEN cl[j] ELSE cl[j + 1]]

\* the elements of a sequence at the indices in S, in order
RECURSIVE Select(_, _, _)
Select(cl, S, i) ==
    IF i > Len(cl) THEN <<>>
    ELSE (IF i \in S THEN <<cl[i]>> ELSE <<>>) \o Select(cl, S, i + 1)

\* what the API server answers and the documents it holds afterwards
create_namespaced_custom_object(cl, ns, body) ==
    IF Named(cl, ns, body.metadata.name) # {}
    THEN [answer |-> ApiException(409, "AlreadyExists"), cluster |-> cl]
    ELSE [answer |-> Ok(body), cluster |-> Append(cl, body)]

get_namespaced_custom_object(cl, ns, name) ==
    IF Named(cl, ns, name) = {}
    THEN [answer |-> ApiException(404, "NotFound"), cluster |-> cl]
    ELSE [answer |-> Ok(cl[CHOOSE i \in Named(cl, ns, name) : TRUE]), cluster |-> cl]

list_namespaced_custom_object(cl, ns) ==
    [answer |-> Ok([items |-> Select(cl, InNamespace(cl, ns), 1)]), cluster |-> cl]

delete_namespaced_custom_object(cl, ns, name) ==
    IF Named(cl, ns, name) = {}
    THEN [answer |-> ApiException(404, "NotFound"), cluster |-> cl]
    ELSE [answer |-> Ok(EmptyDict),
          cluster |-> Without(cl, CHOOSE i \in Named(cl, ns, name) : TRUE)]

----------------------------------------------------------------------------
(* api/core/auth.py: OAuthProvider, and api/routes/auth.py: the OAuth      *)
(* routes.  A call to an endpoint of the provider (GitHubOAuth,            *)
(* GoogleOAuth) is answered by Ok(json) or raises an error of the HTTP     *)
(* client.                                                                 *)

ProviderError(msg) == [kind |-> "raise", raised |-> "ConnectError", message |-> msg]

\* the values of settings.oauth_provider that OAuthProvider dispatches on
SupportedProviders == {"github", "google"}

\* OAuthProvider.exchange_code_for_token and OAuthProvider.get_user_info:
\* the json of the selected provider's answer, or what was raised
OAuthProvider(st, answer) ==
    IF st.oauth_provider \in SupportedProviders
    THEN IF answer.kind = "ok" THEN answer.value
         ELSE [raised |-> answer.raised, message |-> answer.message]
    ELSE HTTPException(400, <<"Unsupported OAuth provider: ", st.oauth_provider>>)

\* str(e)
Str(e) ==
    IF e.raised = "HTTPException" THEN <<e.status_code, ": ", e.detail>>
    ELSE e.message

\* str(user_info.get("id")): the provider's id is a json number (GitHub)
\* or a json string (Google); str of a string is the string, str of a
\* number its digits, and an id that is absent or null is None, whose str is
\* "None".  ToString of a string begins with a quote.
str_id(user_info) ==
    LET id == Get(user_info, "id", None)
    IN  IF IsNone(id) THEN "None"
        ELSE IF SubSeq(ToString(id), 1, 1) = "\"" THEN id
        ELSE ToString(id)

\* the check on the exchange's answer that precedes the profile fetch
HasAccessToken(token_data) == "access_token" \in DOMAIN token_data

\* the handler ends at the exchange: the call raised, or its answer holds no
\* access token
ExchangeEnds(st, exchange) ==
    LET token_data == OAuthProvider(st, exchange)
    IN  IsRaised(token_data) \/ ~HasAccessToken(token_data)

\* in place of the answer of a provider call that was not made
NoAnswer == [kind |-> "none"]

\* POST /auth/oauth/callback: the response, the tokens it issued, and the
\* steps it ran in order ("exchange" and "profile" are the calls to
\* OAuthProvider, "issue" is the creation of the token pair)
oauth_callback(st, exchange, profile, t) ==
    LET failed(e, steps) ==
            [response |-> HTTPException(400, <<"OAuth authentication failed: ", Str(e)>>),
             issued   |-> {},
             steps    |-> steps]
        token_data == OAuthProvider(st, exchange)
        user_info  == OAuthProvider(st, profile)
        token_payload ==
            [sub        |-> IF Truthy(Get(user_info, "login", None))
                            THEN user_info.login
                            ELSE Get(user_info, "email", None),
             user_id    |-> str_id(user_info),
             email      |-> Get(user_info, "email", None),
             name       |-> Get(user_info, "name", None),
             avatar_url |-> Get(user_info, "avatar_url", None),
             scopes     |-> <<"user">>]
        access_token  == create_access_token(token_payload, {}, t)
        refresh       == create_refresh_token([sub |-> token_payload.sub], t)
    IN  IF IsRaised(token_data) THEN failed(token_data, <<"exchange">>)
        ELSE IF ~HasAccessToken(token_data)
        THEN failed(HTTPException(400,
                        "Failed to obtain access token from OAuth provider"),
                    <<"exchange">>)
        ELSE IF IsRaised(user_info)
        THEN failed(user_info, <<"exchange", "profile">>)
        ELSE [response |->
                [access_token  |-> access_token,
                 refresh_token |-> refresh,
                 token_type    |-> "bearer",
                 expires_in    |-> access_token_expire_minutes * 60,
                 user |-> [id         |-> token_payload.user_id,
                           username   |-> token_payload.sub,
                           email      |-> token_payload.email,
                           name       |-> token_payload.name,
                           avatar_url |-> token_payload.avatar_url]],
              issued |-> {access_token, refresh},
              steps  |-> <<"exchange", "profile", "issue">>]

\* GET /auth/auth-config; auth_url is an Optional:
\* auth_urls.get(settings.oauth_provider) is None for a provider that is no
\* key of auth_urls
get_auth_config(st) ==
    IF ~Truthy(st.oauth_client_id)
    THEN HTTPException(500, "OAuth not configured")
    ELSE [provider |-> st.oauth_provider,
          auth_url |->
              IF st.oauth_provider = "github"
              THEN {<<"https://github.com/login/oauth/authorize?client_id=",
                      st.oauth_client_id,
                      "&redirect_uri=", "http://localhost:3000/auth/callback",
                      "&scope=user:email">>}
              ELSE IF st.oauth_provider = "google"
              THEN {<<"https://accounts.google.com/o/oauth2/auth?client_id=",
                      st.oauth_client_id,
                      "&redirect_uri=", "http://localhost:3000/auth/callback",
                      "&scope=openid email profile&response_type=code">>}
              ELSE {},
          redirect_uri |-> "http://localhost:3000/auth/callback",
          require_authentication |-> TRUE]

----------------------------------------------------------------------------
(* api/services/workshop_service.py: the directory operations, given the   *)
(* backend's answer.  A result is [value |-> v] or a raised exception.     *)

Return(v) == [value |-> v]

\* an exception that passes through the service unchanged
Propagate(e) ==
    [raised |-> e.raised, message |-> Get(e, "message", "validation error")]
    @@ (IF "status" \in DOMAIN e THEN [status |-> e.status] ELSE EmptyDict)

\* create_workshop returning None when the backend call fails
WorkshopService_create_workshop_swallow(pyd, answer) ==
    IF answer.kind = "ok"
    THEN LET w == _from_kubernetes_crd(pyd, answer.value)
         IN  IF IsRaised(w) THEN Propagate(w) ELSE Return(w)
    ELSE Return({})

WorkshopService_create_workshop(pyd, answer) ==
    IF answer.kind = "ok"
    THEN LET w == _from_kubernetes_crd(pyd, answer.value)
         IN  IF IsRaised(w) THEN Propagate(w) ELSE Return(w)
    ELSE Propagate(answer)

\* get_workshop returning None for every ApiException
WorkshopService_get_workshop_swallow(pyd, answer) ==
    IF answer.kind = "ok"
    THEN LET w == _from_kubernetes_crd(pyd, answer.value)
         IN  IF IsRaised(w) THEN Propagate(w) ELSE Return({w})
    ELSE IF answer.raised = "ApiException"
    THEN Return({})
    ELSE Propagate(answer)

WorkshopService_get_workshop(pyd, answer) ==
    IF answer.kind = "ok"
    THEN LET w == _from_kubernetes_crd(pyd, answer.value)
         IN  IF IsRaised(w) THEN Propagate(w) ELSE Return({w})
    ELSE IF answer.raised = "ApiException" /\ answer.status = 404
    THEN Return({})
    ELSE Propagate(answer)

\* list_workshops leaving out the items whose mapping fails
WorkshopService_list_workshops_skip(pyd, answer) ==
    IF answer.kind = "ok"
    THEN LET items == Get(answer.value, "items", <<>>)
             workshops == [i \in 1..Len(items) |-> _from_kubernetes_crd(pyd, items[i])]
         IN  Return(Select(workshops,
                           {i \in 1..Len(items) : ~IsRaised(workshops[i])}, 1))
    ELSE Propagate(answer)

WorkshopService_list_workshops(pyd, answer) ==
    IF answer.kind = "ok"
    THEN LET items == Get(answer.value, "items", <<>>)
             workshops == [i \in 1..Len(items) |-> _from_kubernetes_crd(pyd, items[i])]
         IN  IF IsNone(items) THEN Propagate(NoneNotIterable)
             ELSE IF \E i \in 1..Len(items) : IsRaised(workshops[i])
             THEN Propagate(workshops[CHOOSE i \in 1..Len(items) :
                                        /\ IsRaised(workshops[i])
                                        /\ \A j \in 1..(i - 1) : ~IsRaised(workshops[j])])
             ELSE Return(workshops)
    ELSE Propagate(answer)

\* delete_workshop raising on 404 as on any other failure
WorkshopService_delete_workshop_raise(answer) ==
    IF answer.kind = "ok" THEN Return(TRUE) ELSE Propagate(answer)

WorkshopService_delete_workshop(answer) ==
    IF answer.kind = "ok"
    THEN Return(TRUE)
    ELSE IF answer.raised = "ApiException" /\ answer.status = 404
    THEN Return(FALSE)
    ELSE Propagate(answer)

----------------------------------------------------------------------------
(* api/routes/workshops.py: the response of each route, given the result   *)
(* of the service call.  A response is [status_code, body].                *)

Response(code, body) == [status_code |-> code, body |-> body]

\* raise HTTPException(500, f"<what>: {str(e)}")
Failed(what, e) == Response(500, [detail |-> <<what, e.message>>])

NotFound(name) == Response(404, [detail |-> <<"Workshop ", name, " not found">>])

\* Query(ge=1) on page, Query(ge=1, le=100) on size
MaxPageSize == 100

ValidQuery(page, size) == page >= 1 /\ size >= 1 /\ size <= MaxPageSize

\* workshops[start:end]
Slice(workshops, start, end) ==
    IF start >= Len(workshops) THEN <<>>
    ELSE SubSeq(workshops, start + 1,
                IF end < Len(workshops) THEN end ELSE Len(workshops))

\* the window computed with a one-based start
Paginate_off_by_one(workshops, page, size) ==
    [items |-> Slice(workshops, (page - 1) * size + 1, (page - 1) * size + 1 + size),
     total |-> Len(workshops),
     page  |-> page,
     size  |-> size]

Paginate(workshops, page, size) ==
    LET start == (page - 1) * size
        end   == start + size
    IN  [items |-> Slice(workshops, start, end),
         total |-> Len(workshops),
         page  |-> page,
         size  |-> size]

\* create_workshop answering with the status of the backend's exception
routes_create_workshop_passthrough(r) ==
    IF IsRaised(r)
    THEN Response(Get(r, "status", 500),
                  [detail |-> <<"Failed to create workshop: ", r.message>>])
    ELSE Response(201, r.value)

routes_create_workshop(r) ==
    IF IsRaised(r) THEN Failed("Failed to create workshop: ", r)
    ELSE Response(201, r.value)

routes_list_workshops(r, page, size) ==
    IF IsRaised(r) THEN Failed("Failed to list workshops: ", r)
    ELSE Response(200, Paginate(r.value, page, size))

routes_get_workshop(r, name) ==
    IF IsRaised(r) THEN Failed("Failed to get workshop: ", r)
    ELSE IF r.value = {} THEN NotFound(name)
    ELSE Response(200, The(r.value))

routes_delete_workshop(r, name) ==
    IF IsRaised(r) THEN Failed("Failed to delete workshop: ", r)
    ELSE IF ~r.value THEN NotFound(name)
    ELSE Response(204, EmptyDict)

routes_get_workshop_status(r, name) ==
    IF IsRaised(r) THEN Failed("Failed to get workshop status: ", r)
    ELSE IF r.value = {} THEN NotFound(name)
    ELSE LET w == The(r.value)
         IN  Response(200,
                [name      |-> w.name,
                 namespace |-> w.namespace,
                 status    |-> w.status,
                 url       |-> IF w.status # {} THEN The(w.status).url ELSE None])

\* the dependencies a Workshop route declares: no route of the router takes
\* Depends(get_current_user), and main.py includes the router without any
RouteDependencies(op) == {}

----------------------------------------------------------------------------
(* main.py: what the caller receives when a handler raises *)

\* an HTTPException is answered with its status and detail; any other
\* exception reaches global_exception_handler
Respond(r) ==
    IF ~IsRaised(r) THEN [status_code |-> 200, body |-> r]
    ELSE IF r.raised = "HTTPException"
    THEN [status_code |-> r.status_code, body |-> [detail |-> r.detail]]
    ELSE [status_code |-> 500, body |-> [detail |-> "Internal server error"]]

----------------------------------------------------------------------------
(* Sample values *)

Names == {"test-workshop", "w2"}

Namespaces == {"default", "team-a"}

ResourceSamples ==
    [cpu : {"1", "2"}, memory : {"2Gi", "4Gi"},
     cpu_request : {"500m", "250m"}, memory_request : {"1Gi", "512Mi"}]

StorageSamples == [size : {"10Gi", "20Gi"}, storage_class : {None, "", "fast"}]

AnnotationSamples == {EmptyDict, [k \in {"kubernetes.io/ingress.class"} |-> "nginx"]}

IngressSamples == [host : {None, "", "w.example.org"}, annotations : AnnotationSamples]

\* the valid WorkshopCreate instances of the sample values
Workshops ==
    [name      : Names,
     duration  : {"4h", "8h"},
     image     : {"rocker/rstudio:latest", "rocker/verse:4.3"},
     resources : ResourceSamples,
     storage   : {{}} \cup {{st} : st \in StorageSamples},
     ingress   : {{}} \cup {{ig} : ig \in IngressSamples}]

\* metadata blocks the backend may return
MetadataSamples ==
    {[name |-> n, namespace |-> ns] : n \in Names, ns \in Namespaces}
    \cup {[name |-> "test-workshop", namespace |-> "default",
           creationTimestamp |-> ts, resourceVersion |-> "12345"] : ts \in TimeStrings}

ConditionSamples ==
    {[type |-> "Ready", status |-> "True", lastTransitionTime |-> TsZ],
     [type |-> "Provisioned", status |-> "False", reason |-> "Waiting"],
     [status |-> "True"]}

StatusSamples ==
    {EmptyDict,
     [phase |-> "Ready", url |-> "https://w.example.org", createdAt |-> TsZ,
      expiresAt |-> TsOffset, conditions |-> <<>>],
     [url |-> "https://w.example.org"],
     [phase |-> "Bogus"],
     [phase |-> None],
     [phase |-> "Ready", url |-> None]}
    \cup {[phase |-> "Running", conditions |-> <<c>>] : c \in ConditionSamples}
    \cup {[phase |-> "Creating", conditions |-> <<c, d>>] :
             c \in ConditionSamples, d \in ConditionSamples}

\* the document {spec: {}}
BareDoc == [spec |-> EmptyDict]

\* documents the backend may return
WireDocs ==
    {BareDoc, [metadata |-> EmptyDict], EmptyDict}
    \cup {[metadata |-> m, spec |-> sp] :
             m \in MetadataSamples,
             sp \in {EmptyDict, [name |-> "test-workshop", duration |-> "4h"],
                     [name |-> "w2", resources |-> [cpu |-> "2", cpuRequest |-> "250m"],
                      storage |-> [storageClass |-> "fast"],
                      ingress |-> [host |-> "w.example.org"]]}}
    \cup {[apiVersion |-> <<GROUP, "/", VERSION>>, kind |-> "Workshop",
           metadata |-> [name |-> "test-workshop", namespace |-> "default"],
           spec |-> [name |-> "test-workshop", duration |-> "4h"],
           status |-> st] : st \in StatusSamples}
    \cup {[metadata |-> [name |-> "w2", namespace |-> "default"], spec |-> sp] :
             sp \in {[name |-> "w2", duration |-> None],
                     [name |-> "w2", image |-> None],
                     [name |-> "w2", resources |-> [cpu |-> None]],
                     [name |-> "w2", resources |-> [memory |-> None]],
                     [name |-> "w2", resources |-> [cpuRequest |-> None]],
                     [name |-> "w2", storage |-> [size |-> None]],
                     [name |-> "w2", storage |-> [storageClass |-> None]],
                     [name |-> None, duration |-> "4h"]}}
    \cup {[metadata |-> [name |-> None, namespace |-> "default"],
           spec |-> [name |-> "w2", duration |-> "4h"]]}

\* documents the backend may return in which a block is null: a dict, or a
\* list, is present with the value null
NullDocs ==
    LET m == [name |-> "w2", namespace |-> "default"]
        sp == [name |-> "w2"]
    IN  <<[metadata |-> None, spec |-> sp],
          [metadata |-> m, spec |-> None],
          [metadata |-> m, spec |-> sp, status |-> None],
          [metadata |-> m, spec |-> [name |-> "w2", resources |-> None]],
          [metadata |-> m, spec |-> [name |-> "w2", storage |-> None]],
          [metadata |-> m, spec |-> [name |-> "w2", ingress |-> None]],
          [metadata |-> m, spec |-> [name |-> "w2", ingress |-> [host |-> None]]],
          [metadata |-> m, spec |-> [name |-> "w2", ingress |-> [annotations |-> None]]],
          [metadata |-> m,
           spec |-> [name |-> "w2",
                     ingress |-> [annotations |->
                                    [k \in {"kubernetes.io/ingress.class"} |-> None]]]],
          [metadata |-> m, spec |-> sp, status |-> [conditions |-> None]],
          [metadata |-> m, spec |-> sp,
           status |-> [phase |-> "Ready", conditions |-> <<None>>]]>>

----------------------------------------------------------------------------
(* Bounds *)

MaxItems == 2

MaxPage == 2

MaxListed == 120

MaxListPage == 4

MaxTicks == 1

MaxTokens == 2

----------------------------------------------------------------------------
(* Sample values of the token issuer *)

\* the claims oauth_callback derives from a provider profile
CallbackClaims(login) ==
    [sub |-> login, user_id |-> "42", email |-> "a@example.org",
     name |-> "A. User", avatar_url |-> None, scopes |-> <<"user">>]

AccessClaimSamples ==
    {CallbackClaims("alice"), EmptyDict, [sub |-> "alice", scopes |-> None]}

RefreshClaimSamples == {[sub |-> "alice"]}

\* expires_delta in minutes; {} is the omitted argument
TtlSamples == {{}, {0}, {60}}

TickSteps == {1, access_token_expire_minutes, refresh_token_expire_days * 24 * 60}

\* what a client can present given the tokens issued: a token as issued,
\* with a bit of its signature flipped, re-signed under another key, with
\* its type claim rewritten under the old signature, or a string that is
\* no JWT
Presentable(issued) ==
    issued
    \cup {[payload |-> tk.payload, sig |-> sg] :
             tk \in issued, sg \in {"flipped", "otherkey"}}
    \cup {[payload |-> [type |-> "refresh"] @@ tk.payload, sig |-> "stale"] :
             tk \in {x \in issued : x.payload.type = "access"}}
    \cup {[payload |-> EmptyDict, sig |-> "malformed"]}

SignatureValid(token) == token.sig = "valid"

\* what the provider's code-exchange endpoint answers
ExchangeSamples ==
    {Ok([access_token |-> "provider-token", token_type |-> "bearer"]),
     Ok([error |-> "bad_verification_code"]),
     ProviderError("provider unreachable")}

\* what the provider's profile endpoint answers
ProfileSamples ==
    {Ok([login |-> "alice", id |-> 42, email |-> "a@example.org",
         name |-> "A. User"]),
     Ok([id |-> 7, email |-> "bob@example.org"]),
     Ok([login |-> None, id |-> 42, email |-> "a@example.org"]),
     Ok([id |-> "108177953014", email |-> "g@example.org", name |-> "G. User",
         picture |-> "https://lh3.example.org/p.png", locale |-> "en"]),
     Ok([login |-> "alice", id |-> None, email |-> "a@example.org",
         name |-> "A. User", avatar_url |-> None, company |-> None]),
     Ok([message |-> "Bad credentials"]),
     ProviderError("provider unreachable")}

\* values of ORCHESTRA_OAUTH_PROVIDER and ORCHESTRA_OAUTH_CLIENT_ID
SettingsSamples ==
    [oauth_client_id : {None, "client-id"},
     oauth_provider  : {"github", "google", "oidc"}]

----------------------------------------------------------------------------
(* Sample values of the Workshop routes *)

\* a document as the backend echoes it in tests/test_workshops.py
MinimalDoc(name, ns) ==
    [apiVersion |-> <<GROUP, "/", VERSION>>, kind |-> "Workshop",
     metadata |-> [name |-> name, namespace |-> ns],
     spec |-> [name |-> name, duration |-> "4h"],
     status |-> EmptyDict]

\* a Workshop resource created without spec.name
NamelessDoc(name, ns) ==
    [apiVersion |-> <<GROUP, "/", VERSION>>, kind |-> "Workshop",
     metadata |-> [name |-> name, namespace |-> ns],
     spec |-> [duration |-> "8h"]]

\* the last document holds a key whose value is null
SeedDocs ==
    {MinimalDoc(n, ns) : n \in Names, ns \in Namespaces}
    \cup {NamelessDoc(n, "default") : n \in Names}
    \cup {[MinimalDoc("w2", "default") EXCEPT !.spec.duration = None]}

SeedClusters ==
    {<<>>} \cup {<<d>> : d \in SeedDocs}
    \cup {<<p[1], p[2]>> :
             p \in {q \in SeedDocs \X SeedDocs :
                      \/ q[1].metadata.name # q[2].metadata.name
                      \/ q[1].metadata.namespace # q[2].metadata.namespace}}

\* the status blocks the external operator writes
OperatorStatuses == {[phase |-> "Ready", url |-> "https://w.example.org"]}

BodySamples ==
    {WorkshopCreate([name |-> "test-workshop"]),
     WorkshopCreate([name |-> "w2",
                     resources |-> WorkshopResources([cpuRequest |-> "250m"]),
                     storage |-> {WorkshopStorage([storageClass |-> "fast"])}])}

Messages == {"connection refused", "etcd leader changed"}

\* failures of the backend or of the connection to it
Faults ==
    {ApiException(500, m) : m \in Messages}
    \cup {ApiException(404, "NotFound"), ClientError("timed out")}

ValidBearer == create_access_token(CallbackClaims("alice"), {}, 0)

BearerSamples ==
    {{}, {ValidBearer}, {[payload |-> ValidBearer.payload, sig |-> "flipped"]}}

PageSamples == 0..MaxPage

SizeSamples == {0, 1, MaxPageSize + 1}

IdleRequest ==
    [pc |-> "idle", op |-> "none", name |-> None, ns |-> None, page |-> 1,
     size |-> 50, body |-> {}, credentials |-> {}, verified |-> FALSE,
     calls |-> 0, call |-> {}, existed |-> FALSE, after_delete |-> {},
     answer |-> {}, service |-> {}, response |-> {}]

IdlePage == [pc |-> "idle", workshops |-> <<>>, page |-> 1, size |-> 50, response |-> {}]

----------------------------------------------------------------------------
(* The mapper on its own: one run maps a WorkshopCreate to a document and  *)
(* back, or maps a document received from the backend.                     *)

\* no OAuth callback is being served
IdleCallback == [pc |-> "idle"]

InitBuild ==
    /\ pydantic \in {"v1", "v2"}
    /\ pyjwt = ">=2.10"
    /\ callback = IdleCallback

InitMapper ==
    /\ InitBuild
    /\ settings = DefaultSettings
    /\ mpc = "start"
    /\ origin = "none"
    /\ workshop \in {{}} \cup {{w} : w \in Workshops}
    /\ namespace \in Namespaces
    /\ crd = {}
    /\ result = {}
    /\ now = 0
    /\ ticks = 0
    /\ tokens = {}
    /\ last = [op |-> "none"]
    /\ cluster = <<>>
    /\ req = IdleRequest
    /\ inflight = <<>>
    /\ pg = IdlePage

ToCrd ==
    /\ mpc = "start"
    /\ workshop # {}
    /\ crd' = {_to_kubernetes_crd(The(workshop), namespace)}
    /\ origin' = "mapped"
    /\ mpc' = "crd"
    /\ UNCHANGED <<pydantic, pyjwt, inflight, callback, settings, workshop, namespace, result, authVars, dirVars>>

Receive ==
    /\ mpc = "start"
    /\ workshop = {}
    /\ \/ \E d \in WireDocs : crd' = {d}
       \/ \E i \in 1..Len(NullDocs) : crd' = {NullDocs[i]}
    /\ origin' = "wire"
    /\ mpc' = "crd"
    /\ UNCHANGED <<pydantic, pyjwt, inflight, callback, settings, workshop, namespace, result, authVars, dirVars>>

FromCrd ==
    /\ mpc = "crd"
    /\ result' = {_from_kubernetes_crd(pydantic, The(crd))}
    /\ mpc' = "done"
    /\ UNCHANGED <<pydantic, pyjwt, inflight, callback, settings, origin, workshop, namespace, crd, authVars, dirVars>>

NextMapper == ToCrd \/ Receive \/ FromCrd

SpecMapper == InitMapper /\ [][NextMapper]_vars

----------------------------------------------------------------------------
(* The token issuer: tokens are issued, the clock advances, and clients     *)
(* present tokens to verify_token, POST /auth/refresh and GET /auth/me.    *)

InitAuth ==
    /\ pydantic = "v2"
    /\ pyjwt \in {"<2.10", ">=2.10"}
    /\ callback = IdleCallback
    /\ settings = [DefaultSettings EXCEPT !.oauth_client_id = "client-id"]
    /\ mpc = "idle"
    /\ origin = "none"
    /\ workshop = {}
    /\ namespace = "default"
    /\ crd = {}
    /\ result = {}
    /\ now = 0
    /\ ticks = 0
    /\ tokens = {}
    /\ last = [op |-> "none"]
    /\ cluster = <<>>
    /\ req = IdleRequest
    /\ inflight = <<>>
    /\ pg = IdlePage

Tick ==
    /\ ticks < MaxTicks
    /\ \E d \in TickSteps : now' = now + d
    /\ ticks' = ticks + 1
    /\ UNCHANGED <<pydantic, pyjwt, inflight, callback, settings, mapperVars, dirVars, tokens, last>>

CallCreateAccessToken ==
    \E data \in AccessClaimSamples, ttl \in TtlSamples :
        LET token == create_access_token(data, ttl, now)
        IN  /\ Cardinality(tokens \cup {token}) <= MaxTokens
            /\ tokens' = tokens \cup {token}
            /\ last' = [op |-> "create_access_token", data |-> data,
                        expires_delta |-> ttl, at |-> now, token |-> token]
            /\ UNCHANGED <<pydantic, pyjwt, inflight, callback, settings, mapperVars, dirVars, now, ticks>>

CallCreateRefreshToken ==
    \E data \in RefreshClaimSamples :
        LET token == create_refresh_token(data, now)
        IN  /\ Cardinality(tokens \cup {token}) <= MaxTokens
            /\ tokens' = tokens \cup {token}
            /\ last' = [op |-> "create_refresh_token", data |-> data,
                        at |-> now, token |-> token]
            /\ UNCHANGED <<pydantic, pyjwt, inflight, callback, settings, mapperVars, dirVars, now, ticks>>

CallVerifyToken ==
    \E token \in Presentable(tokens) :
        /\ last' = [op |-> "verify_token", token |-> token, at |-> now,
                    outcome |-> verify_token(token, now)]
        /\ UNCHANGED <<pydantic, pyjwt, inflight, callback, settings, mapperVars, dirVars, now, ticks, tokens>>

PostRefresh ==
    \E token \in Presentable(tokens) :
        LET r == refresh_token(token, now)
        IN  /\ Cardinality(tokens \cup r.issued) <= MaxTokens
            /\ tokens' = tokens \cup r.issued
            /\ last' = [op |-> "refresh", token |-> token, at |-> now,
                        outcome |-> r.response]
            /\ UNCHANGED <<pydantic, pyjwt, inflight, callback, settings, mapperVars, dirVars, now, ticks>>

GetMe ==
    \E credentials \in {{}} \cup {{tk} : tk \in Presentable(tokens)} :
        /\ last' = [op |-> "me", credentials |-> credentials, at |-> now,
                    outcome |-> get_current_user_info(credentials, now)]
        /\ UNCHANGED <<pydantic, pyjwt, inflight, callback, settings, mapperVars, dirVars, now, ticks, tokens>>

\* what `last` records of a callback that has answered at the clock's now
CallbackRecord(exchange, profile, r) ==
    [op |-> "callback", exchange |-> exchange, profile |-> profile,
     at |-> now, outcome |-> r.response, steps |-> r.steps, issued |-> r.issued]

\* POST /auth/oauth/callback arrives and the handler calls
\* OAuthProvider.exchange_code_for_token: with a provider that is not
\* supported the call raises at once and the handler answers, otherwise the
\* handler is suspended until the provider has answered
CallbackArrive ==
    /\ callback.pc = "idle"
    /\ IF settings.oauth_provider \in SupportedProviders
       THEN /\ callback' = [pc |-> "exchange"]
            /\ UNCHANGED last
       ELSE /\ callback' = IdleCallback
            /\ last' = CallbackRecord(NoAnswer, NoAnswer,
                            oauth_callback(settings, NoAnswer, NoAnswer, now))
    /\ UNCHANGED <<pydantic, pyjwt, inflight, settings, mapperVars, dirVars, now, ticks, tokens>>

\* the provider answers the code exchange: the handler answers 400, or calls
\* OAuthProvider.get_user_info and is suspended again
CallbackExchanged ==
    /\ callback.pc = "exchange"
    /\ \E exchange \in ExchangeSamples :
          IF ExchangeEnds(settings, exchange)
          THEN /\ callback' = IdleCallback
               /\ last' = CallbackRecord(exchange, NoAnswer,
                               oauth_callback(settings, exchange, NoAnswer, now))
          ELSE /\ callback' = [pc |-> "profile", exchange |-> exchange]
               /\ UNCHANGED last
    /\ UNCHANGED <<pydantic, pyjwt, inflight, settings, mapperVars, dirVars, now, ticks, tokens>>

\* the provider answers the profile request: the handler issues the pair at
\* the clock's now and answers, or answers 400
OAuthCallback ==
    /\ callback.pc = "profile"
    /\ \E profile \in ProfileSamples :
          LET r == oauth_callback(settings, callback.exchange, profile, now)
          IN  /\ Cardinality(tokens \cup r.issued) <= MaxTokens
              /\ tokens' = tokens \cup r.issued
              /\ last' = CallbackRecord(callback.exchange, profile, r)
    /\ callback' = IdleCallback
    /\ UNCHANGED <<pydantic, pyjwt, inflight, settings, mapperVars, dirVars, now, ticks>>

GetAuthConfig ==
    /\ last' = [op |-> "auth_config", at |-> now,
                outcome |-> get_auth_config(settings)]
    /\ UNCHANGED <<pydantic, pyjwt, inflight, callback, settings, mapperVars, dirVars, now, ticks, tokens>>

NextAuth ==
    \/ Tick
    \/ CallbackArrive
    \/ CallbackExchanged
    \/ OAuthCallback
    \/ CallCreateAccessToken
    \/ CallCreateRefreshToken
    \/ CallVerifyToken
    \/ PostRefresh
    \/ GetMe

SpecAuth == InitAuth /\ [][NextAuth]_vars

----------------------------------------------------------------------------
(* The OAuth routes under every configuration the environment can give:    *)
(* Settings() is built once, then the routes are served.                   *)

InitOAuth ==
    /\ pydantic = "v2"
    /\ pyjwt \in {"<2.10", ">=2.10"}
    /\ callback = IdleCallback
    /\ settings \in SettingsSamples
    /\ mpc = "idle"
    /\ origin = "none"
    /\ workshop = {}
    /\ namespace = "default"
    /\ crd = {}
    /\ result = {}
    /\ now = 0
    /\ ticks = 0
    /\ tokens = {}
    /\ last = [op |-> "none"]
    /\ cluster = <<>>
    /\ req = IdleRequest
    /\ inflight = <<>>
    /\ pg = IdlePage

NextOAuth ==
    \/ Tick
    \/ CallbackArrive
    \/ CallbackExchanged
    \/ OAuthCallback
    \/ GetAuthConfig
    \/ CallVerifyToken

SpecOAuth == InitOAuth /\ [][NextOAuth]_vars

----------------------------------------------------------------------------
(* The Workshop routes: requests arrive one after another, each handler    *)
(* makes its backend call and answers; the external operator rewrites the  *)
(* status of the documents in between.                                     *)

Init ==
    /\ InitBuild
    /\ settings = DefaultSettings
    /\ mpc = "idle"
    /\ origin = "none"
    /\ workshop = {}
    /\ namespace = "default"
    /\ crd = {}
    /\ result = {}
    /\ now = 0
    /\ ticks = 0
    /\ tokens = {}
    /\ last = [op |-> "none"]
    /\ cluster \in SeedClusters
    /\ req = IdleRequest
    /\ inflight = <<>>
    /\ pg = IdlePage

\* the request passes the framework: declared dependencies, then the
\* validation of the query parameters
Admit(r) ==
    LET user == get_current_user(r.credentials, now)
    IN  IF "get_current_user" \in RouteDependencies(r.op) /\ IsRaised(user)
        THEN [r EXCEPT !.pc = "done", !.response = {Respond(user)}]
        ELSE IF r.op = "list" /\ ~ValidQuery(r.page, r.size)
        THEN [r EXCEPT !.pc = "done",
                       !.response = {Response(422, [detail |-> "validation error"])}]
        ELSE [r EXCEPT !.pc = "received",
                       !.verified = "get_current_user" \in RouteDependencies(r.op)]

Arrive ==
    /\ req.pc = "idle"
    /\ \E credentials \in BearerSamples, ns \in Namespaces :
         \/ \E body \in BodySamples :
               req' = Admit([req EXCEPT !.op = "create", !.ns = ns,
                                !.body = {body}, !.credentials = credentials])
         \/ \E page \in PageSamples, size \in SizeSamples :
               req' = Admit([req EXCEPT !.op = "list", !.ns = ns,
                                !.page = page, !.size = size,
                                !.credentials = credentials])
         \/ \E op \in {"get", "delete", "status"}, name \in Names :
               req' = Admit([req EXCEPT !.op = op, !.ns = ns, !.name = name,
                                !.credentials = credentials])
    /\ UNCHANGED <<pydantic, pyjwt, inflight, callback, settings, mapperVars, authVars, cluster, pg>>

\* the call the service makes on self.custom_api for request r
BackendCall(r) ==
    [method    |-> CASE r.op = "create" -> "create_namespaced_custom_object"
                     [] r.op = "list"   -> "list_namespaced_custom_object"
                     [] r.op = "delete" -> "delete_namespaced_custom_object"
                     [] OTHER           -> "get_namespaced_custom_object",
     group     |-> GROUP,
     version   |-> VERSION,
     plural    |-> PLURAL,
     namespace |-> r.ns]
    @@ (CASE r.op = "create" -> [body |-> _to_kubernetes_crd(The(r.body), r.ns)]
          [] r.op = "list"   -> [label_selector |-> None]
          [] OTHER           -> [name |-> r.name])

\* the request after its backend call was answered and its response computed
Answered(r, answer, service, response) ==
    [r EXCEPT !.pc = "done", !.calls = @ + 1, !.call = {BackendCall(r)},
              !.answer = {answer},
              !.existed = r.op \in {"get", "delete", "status"}
                          /\ Named(cluster, r.ns, r.name) # {},
              !.service = {service},
              !.response = {response}]

\* the backend answers as the API server does, or fails
Outcomes(normal) == {normal} \cup {[answer |-> f, cluster |-> cluster] : f \in Faults}

\* a create call is answered with the stored document, or with the minimal
\* document of tests/test_workshops.py
CreateOutcomes(normal, name, ns) ==
    Outcomes(normal)
    \cup (IF normal.answer.kind = "ok"
          THEN {[answer |-> Ok(MinimalDoc(name, ns)), cluster |-> normal.cluster]}
          ELSE {})

CreateWorkshop ==
    /\ req.pc = "received" /\ req.op = "create"
    /\ Len(cluster) < MaxItems
    /\ \E o \in CreateOutcomes(create_namespaced_custom_object(cluster, req.ns,
                           _to_kubernetes_crd(The(req.body), req.ns)),
                       The(req.body).name, req.ns) :
         /\ cluster' = o.cluster
         /\ req' = Answered(req, o.answer, WorkshopService_create_workshop(pydantic, o.answer),
                      routes_create_workshop(WorkshopService_create_workshop(pydantic, o.answer)))
    /\ UNCHANGED <<pydantic, pyjwt, inflight, callback, settings, mapperVars, authVars, pg>>

ListWorkshops ==
    /\ req.pc = "received" /\ req.op = "list"
    /\ \E o \in Outcomes(list_namespaced_custom_object(cluster, req.ns)) :
         /\ cluster' = o.cluster
         /\ req' = Answered(req, o.answer, WorkshopService_list_workshops(pydantic, o.answer),
                      routes_list_workshops(WorkshopService_list_workshops(pydantic, o.answer),
                          req.page, req.size))
    /\ UNCHANGED <<pydantic, pyjwt, inflight, callback, settings, mapperVars, authVars, pg>>

GetWorkshop ==
    /\ req.pc = "received" /\ req.op = "get"
    /\ \E o \in Outcomes(get_namespaced_custom_object(cluster, req.ns, req.name)) :
         /\ cluster' = o.cluster
         /\ req' = Answered(req, o.answer, WorkshopService_get_workshop(pydantic, o.answer),
                      routes_get_workshop(WorkshopService_get_workshop(pydantic, o.answer), req.name))
    /\ UNCHANGED <<pydantic, pyjwt, inflight, callback, settings, mapperVars, authVars, pg>>

DeleteWorkshop ==
    /\ req.pc = "received" /\ req.op = "delete"
    /\ \E o \in Outcomes(delete_namespaced_custom_object(cluster, req.ns, req.name)) :
         /\ cluster' = o.cluster
         /\ req' = Answered(req, o.answer, WorkshopService_delete_workshop(o.answer),
                      routes_delete_workshop(WorkshopService_delete_workshop(o.answer), req.name))
    /\ UNCHANGED <<pydantic, pyjwt, inflight, callback, settings, mapperVars, authVars, pg>>

GetWorkshopStatus ==
    /\ req.pc = "received" /\ req.op = "status"
    /\ \E o \in Outcomes(get_namespaced_custom_object(cluster, req.ns, req.name)) :
         /\ cluster' = o.cluster
         /\ req' = Answered(req, o.answer, WorkshopService_get_workshop(pydantic, o.answer),
                      routes_get_workshop_status(WorkshopService_get_workshop(pydantic, o.answer), req.name))
    /\ UNCHANGED <<pydantic, pyjwt, inflight, callback, settings, mapperVars, authVars, pg>>

\* the external operator writes the status of a document
OperatorUpdate ==
    /\ \E i \in 1..Len(cluster), st \in OperatorStatuses :
         /\ Get(cluster[i], "status", EmptyDict) # st
         /\ cluster' = [cluster EXCEPT ![i] = [status |-> st] @@ @]
    /\ UNCHANGED <<pydantic, pyjwt, inflight, callback, settings, mapperVars, authVars, req, pg>>

\* the response has been sent and the handler has returned
Close ==
    /\ req.pc = "done"
    /\ req' = [IdleRequest EXCEPT !.after_delete =
                    IF req.op = "delete" /\ The(req.response).status_code = 204
                    THEN {<<req.ns, req.name>>} ELSE {}]
    /\ UNCHANGED <<pydantic, pyjwt, inflight, callback, settings, mapperVars, authVars, cluster, pg>>

Next ==
    \/ Arrive
    \/ Close
    \/ CreateWorkshop
    \/ ListWorkshops
    \/ GetWorkshop
    \/ DeleteWorkshop
    \/ GetWorkshopStatus
    \/ OperatorUpdate

Spec == Init /\ [][Next]_vars

----------------------------------------------------------------------------
(* GET /workshops/ on its own: the service returned a list of a given      *)
(* length, whose i-th Workshop is denoted by i, and the route answers for  *)
(* a given page and size.                                                  *)

InitPage ==
    /\ pydantic = "v2"
    /\ pyjwt = ">=2.10"
    /\ callback = IdleCallback
    /\ settings = DefaultSettings
    /\ mpc = "idle"
    /\ origin = "none"
    /\ workshop = {}
    /\ namespace = "default"
    /\ crd = {}
    /\ result = {}
    /\ now = 0
    /\ ticks = 0
    /\ tokens = {}
    /\ last = [op |-> "none"]
    /\ cluster = <<>>
    /\ req = IdleRequest
    /\ inflight = <<>>
    /\ \E n \in 0..MaxListed, page \in 0..MaxListPage, size \in 0..(MaxPageSize + 1) :
         pg = [pc |-> "received", workshops |-> [i \in 1..n |-> i],
               page |-> page, size |-> size, response |-> {}]

ListPage ==
    /\ pg.pc = "received"
    /\ pg' = [pg EXCEPT
                !.pc = "done",
                !.response =
                    IF ValidQuery(pg.page, pg.size)
                    THEN {routes_list_workshops(Return(pg.workshops), pg.page, pg.size)}
                    ELSE {Response(422, [detail |-> "validation error"])}]
    /\ UNCHANGED <<pydantic, pyjwt, inflight, callback, settings, mapperVars, authVars, cluster, req>>

NextPage == ListPage

SpecPage == InitPage /\ [][NextPage]_vars

----------------------------------------------------------------------------
(* C1: round trip.  Mapping a WorkshopCreate and a namespace to a document *)
(* and the document back yields the same spec, field by field, with name   *)
(* and namespace.                                                          *)
RoundTrip ==
    (mpc = "done" /\ origin = "mapped") =>
        /\ ~IsRaised(The(result))
        /\ The(result).spec = The(workshop)
        /\ The(result).name = The(workshop).name
        /\ The(result).namespace = namespace

(* C2: defaulting.  The document {spec: {}} maps, without failing, to a    *)
(* Workshop with the default resources, duration and image and a status    *)
(* whose phase is Pending.                                                 *)
Defaulting ==
    (mpc = "done" /\ The(crd) = BareDoc) =>
        /\ ~IsRaised(The(result))
        /\ The(result).spec.resources =
              [cpu |-> "1", memory |-> "2Gi", cpu_request |-> "500m",
               memory_request |-> "1Gi"]
        /\ The(result).spec.duration = "4h"
        /\ The(result).spec.image = "rocker/rstudio:latest"
        /\ The(result).status # {}
        /\ The(The(result).status).phase = "Pending"

\* the exp claim of a token has passed at time t
ExpPassed(token, t) == "exp" \in DOMAIN token.payload /\ token.payload.exp <= t

(* C6: access-token expiry.  create_access_token sets exp = now + ttl for  *)
(* every ttl given, 0 included, and now + 30 minutes only when ttl is      *)
(* omitted; a token issued with ttl = 0 verifies as Expired at once.       *)
AccessTokenExpiry ==
    last.op = "create_access_token" =>
        /\ last.expires_delta # {} =>
                last.token.payload.exp = last.at + The(last.expires_delta)
        /\ last.expires_delta = {} =>
                last.token.payload.exp = last.at + access_token_expire_minutes
        /\ last.expires_delta = {0} =>
                verify_token(last.token, last.at)
                    = HTTPException(401, "Token has expired")

(* C7: verify_token returns the claims exactly when the signature is valid *)
(* and exp has not passed, fails as Expired exactly when the signature is  *)
(* valid and exp has passed, fails as Invalid for every signature or       *)
(* format failure, and fails in no other way.                              *)
VerifyOutcomes ==
    last.op = "verify_token" =>
        LET good    == SignatureValid(last.token)
            expired == ExpPassed(last.token, last.at)
        IN  /\ (good /\ ~expired) <=> last.outcome = last.token.payload
            /\ (good /\ expired) <=>
                    last.outcome = HTTPException(401, "Token has expired")
            /\ ~good <=>
                    last.outcome = HTTPException(401, "Could not validate credentials")

(* C8: POST /auth/refresh succeeds only for a token that verifies and      *)
(* whose type is refresh, answers 401 to every token of another type, and  *)
(* on success issues an access token carrying the subject of the refresh   *)
(* token, type access and no other claim of identity.                      *)
RefreshOnlyRefreshTokens ==
    last.op = "refresh" =>
        /\ ~IsRaised(last.outcome) =>
                /\ SignatureValid(last.token)
                /\ ~ExpPassed(last.token, last.at)
                /\ last.token.payload.type = "refresh"
                /\ last.outcome.access_token.sig = "valid"
                /\ last.outcome.access_token.payload =
                        [sub  |-> last.token.payload.sub,
                         type |-> "access",
                         exp  |-> last.at + access_token_expire_minutes]
        /\ Get(last.token.payload, "type", None) # "refresh" =>
                Respond(last.outcome) =
                    [status_code |-> 401, body |-> [detail |-> "Invalid refresh token"]]

\* a refresh token was exchanged for an access token
RefreshSucceeded ==
    /\ last.op = "refresh"
    /\ ~IsRaised(last.outcome)
    /\ last.token.payload.type = "refresh"
    /\ last.outcome.access_token \in tokens

(* C9: get_current_user rejects every bearer token whose type is not       *)
(* access; a refresh token never identifies a user.                        *)
TypeEnforcedOnRequests ==
    (/\ last.op = "me"
     /\ last.credentials # {}
     /\ Get(The(last.credentials).payload, "type", None) # "access") =>
        IsRaised(last.outcome)

Is404(answer) ==
    answer.kind = "raise" /\ answer.raised = "ApiException" /\ answer.status = 404

OtherFailure(answer) == answer.kind = "raise" /\ ~Is404(answer)

(* C3: not-found on get.  get_workshop returns None, without raising, when *)
(* the backend signals 404 and raises on every other failure; GET          *)
(* /workshops/{name} answers 404 in the first case and only then, and 500  *)
(* in the second.                                                          *)
GetNotFoundDistinct ==
    (req.pc = "done" /\ req.op = "get" /\ req.calls > 0) =>
        LET answer == The(req.answer)
            code   == The(req.response).status_code
        IN  /\ Is404(answer) => req.service = {Return({})}
            /\ OtherFailure(answer) => IsRaised(The(req.service))
            /\ Is404(answer) <=> code = 404
            /\ OtherFailure(answer) => code = 500

\* a get of a missing workshop was answered 404
GetAnsweredNotFound ==
    /\ req.pc = "done" /\ req.op = "get"
    /\ ~req.existed
    /\ Is404(The(req.answer))
    /\ The(req.response) = NotFound(req.name)

(* C4: delete is idempotent by absence.  delete_workshop returns true when *)
(* the backend delete succeeds (204), false without raising on 404 (404),  *)
(* and raises on any other failure (500); deleting a workshop that does    *)
(* not exist, a second delete right after a successful one included, is    *)
(* answered not-found unless the backend itself fails.                     *)
DeleteIdempotentByAbsence ==
    (req.pc = "done" /\ req.op = "delete" /\ req.calls > 0) =>
        LET answer == The(req.answer)
            code   == The(req.response).status_code
        IN  /\ answer.kind = "ok" => req.service = {Return(TRUE)} /\ code = 204
            /\ Is404(answer) => req.service = {Return(FALSE)} /\ code = 404
            /\ OtherFailure(answer) => IsRaised(The(req.service)) /\ code = 500
            /\ (~req.existed /\ ~OtherFailure(answer)) => code = 404
            /\ (req.after_delete = {<<req.ns, req.name>>} /\ ~OtherFailure(answer)) =>
                    code = 404

\* the same workshop was deleted twice in a row: 204, then 404
DeletedTwice ==
    /\ req.pc = "done" /\ req.op = "delete"
    /\ req.after_delete = {<<req.ns, req.name>>}
    /\ req.service = {Return(FALSE)}
    /\ The(req.response).status_code = 404

(* C5: pagination.  For a list L, page >= 1 and size in 1..100 the list    *)
(* endpoint returns the items of L at the indices in                       *)
(* [(page-1)*size, page*size) below |L|, in order, echoes page and size,   *)
(* and reports total = |L|.                                                *)
PaginationWindow ==
    (pg.pc = "done" /\ ValidQuery(pg.page, pg.size)) =>
        LET L      == pg.workshops
            body   == The(pg.response).body
            lo     == (pg.page - 1) * pg.size
            hi     == pg.page * pg.size
            window == {i \in 0..(Len(L) - 1) : lo <= i /\ i < hi}
        IN  /\ The(pg.response).status_code = 200
            /\ body.total = Len(L)
            /\ body.page = pg.page
            /\ body.size = pg.size
            /\ Len(body.items) = Cardinality(window)
            /\ \A k \in 1..Len(body.items) : body.items[k] = L[lo + k]

\* 120 items, page 2, size 50: the items with indices 50..99 and total 120
SecondPageOfFifty ==
    /\ pg.pc = "done"
    /\ Len(pg.workshops) = 120 /\ pg.page = 2 /\ pg.size = 50
    /\ The(pg.response).body.items = [k \in 1..50 |-> pg.workshops[50 + k]]
    /\ The(pg.response).body.total = 120

(* C10: authorization precondition.  Every backend call made for a         *)
(* Workshop request follows a successful verification of a valid,          *)
(* unexpired access token carried by the request.                          *)
BackendCallsAuthorized ==
    req.calls > 0 =>
        /\ req.verified
        /\ req.credentials # {}
        /\ SignatureValid(The(req.credentials))
        /\ ~ExpPassed(The(req.credentials), now)
        /\ The(req.credentials).payload.type = "access"

\* the response of the Workshop route serving request r when its backend
\* call is answered by answer
RouteResponse(pyd, r, answer) ==
    CASE r.op = "create" ->
            routes_create_workshop(WorkshopService_create_workshop(pyd, answer))
      [] r.op = "list" ->
            routes_list_workshops(WorkshopService_list_workshops(pyd, answer),
                                  r.page, r.size)
      [] r.op = "get" ->
            routes_get_workshop(WorkshopService_get_workshop(pyd, answer), r.name)
      [] r.op = "delete" ->
            routes_delete_workshop(WorkshopService_delete_workshop(answer), r.name)
      [] r.op = "status" ->
            routes_get_workshop_status(WorkshopService_get_workshop(pyd, answer),
                                       r.name)

(* C11: no detail leak.  When the backend fails with anything other than   *)
(* not-found, the response is a 500 that does not depend on the cause: the *)
(* same request answered by the same failure under any other message       *)
(* receives the identical response.                                        *)
NoDetailLeak ==
    (req.pc = "done" /\ req.calls > 0 /\ OtherFailure(The(req.answer))) =>
        /\ The(req.response).status_code = 500
        /\ \A m \in Messages :
              RouteResponse(pydantic, req, [The(req.answer) EXCEPT !.message = m])
                  = The(req.response)

\* what POST /auth/refresh or GET /auth/me answers to a token at time t
TokenEndpoint(op, token, t) ==
    IF op = "refresh" THEN Respond(refresh_token(token, t).response)
    ELSE Respond(get_current_user_info({token}, t))

(* C12: Expired stays distinguishable.  At every endpoint that consumes a  *)
(* token, POST /auth/refresh included, a token with a valid signature and  *)
(* a passed expiry is answered 401 with a reason that differs from the     *)
(* answer to every invalid token (bad signature, malformed, wrong type).   *)
ExpiredDistinguishable ==
    (/\ last.op \in {"refresh", "me"}
     /\ last.op = "me" => last.credentials # {}) =>
        LET tk == IF last.op = "me" THEN The(last.credentials) ELSE last.token
            invalid ==
                {x \in Presentable(tokens) :
                    \/ ~SignatureValid(x)
                    \/ /\ last.op = "refresh"
                       /\ ~ExpPassed(x, last.at)
                       /\ Get(x.payload, "type", None) # "refresh"}
        IN  (SignatureValid(tk) /\ ExpPassed(tk, last.at)) =>
                /\ Respond(last.outcome).status_code = 401
                /\ \A x \in invalid :
                      TokenEndpoint(last.op, x, last.at) # Respond(last.outcome)

\* a status block as the operator writes it: a phase of the enumeration and
\* conditions that carry type and status
WellFormedStatus(st) ==
    /\ DOMAIN st # {}
    /\ Get(st, "phase", "Pending") \in Phases
    /\ ~IsNone(Get(st, "conditions", <<>>))
    /\ \A i \in 1..Len(Get(st, "conditions", <<>>)) :
          /\ ~IsNone(st.conditions[i])
          /\ {"type", "status"} \subseteq DOMAIN st.conditions[i]
          /\ st.conditions[i].type # None
          /\ st.conditions[i].status # None

\* a document whose mapping can fail only because of its timestamp fields:
\* metadata carries name and namespace, the spec block maps, and the status
\* block, when it is not null or empty, is well formed
WellFormedDoc(doc) ==
    /\ {"metadata", "spec"} \subseteq DOMAIN doc
    /\ ~IsNone(doc.metadata)
    /\ {"name", "namespace"} \subseteq DOMAIN doc.metadata
    /\ doc.metadata.name # None
    /\ doc.metadata.namespace # None
    /\ ~IsRaised(_parse_spec(doc.spec))
    /\ ("status" \in DOMAIN doc /\ ~IsNone(doc.status) /\ DOMAIN doc.status # {}) =>
          WellFormedStatus(doc.status)

\* the reported status (an Optional WorkshopStatus) carries the phase, the
\* url and the conditions of the status block st, in order
ReportsStatus(reported, st) ==
    /\ reported # {}
    /\ The(reported).phase = Get(st, "phase", "Pending")
    /\ The(reported).url = Get(st, "url", None)
    /\ Len(The(reported).conditions) = Len(Get(st, "conditions", <<>>))
    /\ \A i \in 1..Len(The(reported).conditions) :
          /\ The(reported).conditions[i].type = st.conditions[i].type
          /\ The(reported).conditions[i].status = st.conditions[i].status

(* C13: status is read-only and always fresh.  The document submitted by   *)
(* create has no status block, and every get, list and status response     *)
(* reports the phase, url and conditions of the status the backend held    *)
(* when the request's backend call was made, whatever the operator wrote   *)
(* before it.                                                              *)
StatusReadOnlyAndFresh ==
    (req.pc = "done" /\ req.calls > 0 /\ The(req.answer).kind = "ok") =>
        LET doc  == The(req.answer).value
            resp == The(req.response)
        IN  /\ req.op = "create" => "status" \notin DOMAIN The(req.call).body
            /\ (/\ req.op \in {"get", "status"}
                /\ WellFormedDoc(doc)
                /\ WellFormedStatus(Get(doc, "status", EmptyDict))) =>
                    /\ resp.status_code = 200
                    /\ ReportsStatus(resp.body.status, doc.status)
            /\ (/\ req.op = "list"
                /\ \A i \in 1..Len(doc.items) : WellFormedDoc(doc.items[i])) =>
                    /\ resp.status_code = 200
                    /\ \A k \in 1..Len(resp.body.items) :
                          LET item == doc.items[(req.page - 1) * req.size + k]
                          IN  WellFormedStatus(Get(item, "status", EmptyDict)) =>
                                  ReportsStatus(resp.body.items[k].status,
                                                item.status)

\* verify_token fails as Expired
IsExpired(r) == r = HTTPException(401, "Token has expired")

(* C14: token validity is stateless.  Across every step of the issuer      *)
(* (tokens issued, refreshes, OAuth callbacks, the clock advancing), every *)
(* token issued stays in the clients' hands, verifies successfully exactly *)
(* when its signature is valid and its exp has not passed, stays Expired   *)
(* once it has verified as Expired, and verifies after a successful        *)
(* refresh as it did before it, the refresh token used included.           *)
TokenValidityStateless ==
    /\ [](\A tk \in Presentable(tokens) :
             ~IsRaised(verify_token(tk, now)) <=>
                 (SignatureValid(tk) /\ ~ExpPassed(tk, now)))
    /\ [][/\ tokens \subseteq tokens'
          /\ now' # now =>
                \A tk \in Presentable(tokens) :
                    IsExpired(verify_token(tk, now)) =>
                        IsExpired(verify_token(tk, now'))
          /\ (last' # last /\ last'.op = "refresh" /\ ~IsRaised(last'.outcome)) =>
                /\ verify_token(last'.token, now') = last'.token.payload
                /\ \A tk \in Presentable(tokens) :
                      verify_token(tk, now') = verify_token(tk, now)]_vars

(* C15: three-outcome normalization.  Every Workshop request that reaches  *)
(* its handler makes one backend call and ends with a success (200, 201,   *)
(* 204), not-found (404) or failure (500) response, whatever the backend   *)
(* does: every backend failure, timeouts included, is answered 500, except *)
(* a 404 on get, delete or status, which alone is answered not-found.      *)
ThreeOutcomes ==
    (req.pc = "done" /\ req.calls > 0) =>
        LET answer   == The(req.answer)
            code     == The(req.response).status_code
            notfound == Is404(answer) /\ req.op \in {"get", "delete", "status"}
        IN  /\ req.calls = 1
            /\ Cardinality(req.response) = 1
            /\ code \in {200, 201, 204, 404, 500}
            /\ code = 404 <=> notfound
            /\ (answer.kind = "raise" /\ ~notfound) => code = 500
            /\ code \in {200, 201, 204} => answer.kind = "ok"

\* a create call that the backend refused with 404 and a call that timed
\* out were both answered 500
FailureNormalized ==
    /\ req.pc = "done" /\ req.calls > 0
    /\ \/ req.op = "create" /\ Is404(The(req.answer))
       \/ req.op = "list" /\ The(req.answer) = ClientError("timed out")
    /\ The(req.response).status_code = 500

(* C16: list_workshops is all or nothing.  When the backend returns its    *)
(* items, list_workshops either returns the mapping of every item, in the  *)
(* backend's order and of the same length, or fails as a whole; it fails   *)
(* when any single item is malformed and never returns a shorter list.     *)
ListAllOrNothing ==
    (/\ req.pc = "done" /\ req.op = "list" /\ req.calls > 0
     /\ The(req.answer).kind = "ok") =>
        LET items == The(req.answer).value.items
            r     == The(req.service)
        IN  /\ IsRaised(r) <=>
                  \E i \in 1..Len(items) :
                      IsRaised(_from_kubernetes_crd(pydantic, items[i]))
            /\ IsRaised(r) => The(req.response).status_code = 500
            /\ ~IsRaised(r) =>
                  /\ Len(r.value) = Len(items)
                  /\ \A i \in 1..Len(items) :
                        /\ r.value[i] = _from_kubernetes_crd(pydantic, items[i])
                        /\ r.value[i].name = items[i].metadata.name
                  /\ The(req.response).body.total = Len(items)

\* the backend returned a well-formed item and a malformed one, and the
\* whole call failed
ListFailedOnOneMalformedItem ==
    /\ req.pc = "done" /\ req.op = "list" /\ req.calls > 0
    /\ The(req.answer).kind = "ok"
    /\ LET items == The(req.answer).value.items
       IN  /\ Len(items) >= 2
           /\ Cardinality({i \in 1..Len(items) :
                             IsRaised(_from_kubernetes_crd(pydantic, items[i]))}) = 1
    /\ IsRaised(The(req.service))

(* C17: best-effort timestamps.  metadata.creationTimestamp,               *)
(* status.createdAt, status.expiresAt and every condition's                *)
(* lastTransitionTime are read best-effort: a value ending in Z comes out  *)
(* as the instant of the same value with +00:00, a value with an offset is *)
(* parsed, a malformed value comes out absent, and the mapping of the      *)
(* document does not fail.                                                 *)
BestEffortTimestamps ==
    (mpc = "done" /\ origin = "wire" /\ WellFormedDoc(The(crd))) =>
        LET doc == The(crd)
            r   == The(result)
            st  == Get(doc, "status", EmptyDict)
        IN  /\ _parse_datetime(TsZ) = _parse_datetime(TsUtc)
            /\ ~IsRaised(r)
            /\ r.created_at =
                  _parse_datetime(Get(doc.metadata, "creationTimestamp", None))
            /\ (~IsNone(st) /\ DOMAIN st # {}) =>
                  /\ r.status # {}
                  /\ The(r.status).created_at =
                        _parse_datetime(Get(st, "createdAt", None))
                  /\ The(r.status).expires_at =
                        _parse_datetime(Get(st, "expiresAt", None))
                  /\ \A i \in 1..Len(The(r.status).conditions) :
                        The(r.status).conditions[i].last_transition_time =
                            _parse_datetime(Get(st.conditions[i],
                                                "lastTransitionTime", None))

(* C18: shape of the submitted document.  For every WorkshopCreate and     *)
(* namespace, _to_kubernetes_crd yields apiVersion orchestra.io/v1, kind   *)
(* Workshop, the name and namespace in metadata with the two management    *)
(* labels, a spec block that has the key storage exactly when the          *)
(* WorkshopCreate has a storage and the key ingress exactly when it has an *)
(* ingress, and no key whose value is null.                                *)
DocumentShape ==
    (mpc \in {"crd", "done"} /\ origin = "mapped") =>
        LET doc == The(crd)
            w   == The(workshop)
        IN  /\ doc.apiVersion = <<"orchestra.io", "/", "v1">>
            /\ doc.kind = "Workshop"
            /\ doc.metadata.name = w.name
            /\ doc.metadata.namespace = namespace
            /\ DOMAIN doc.metadata.labels = {"app", "managed-by"}
            /\ doc.metadata.labels["app"] = "orchestra-operator"
            /\ doc.metadata.labels["managed-by"] = "orchestra-api"
            /\ "storage" \in DOMAIN doc.spec <=> w.storage # {}
            /\ "ingress" \in DOMAIN doc.spec <=> w.ingress # {}
            /\ \A k \in DOMAIN doc.spec \ {"resources", "storage", "ingress"} :
                  doc.spec[k] # None
            /\ \A k \in DOMAIN doc.spec.resources : doc.spec.resources[k] # None
            /\ "storage" \in DOMAIN doc.spec =>
                  \A k \in DOMAIN doc.spec.storage : doc.spec.storage[k] # None
            /\ "ingress" \in DOMAIN doc.spec =>
                  \A k \in DOMAIN doc.spec.ingress \ {"annotations"} :
                      doc.spec.ingress[k] # None

\* a WorkshopCreate with a storage of no class and an ingress of no host was
\* mapped: both blocks are there, storageClass and host are not
OptionalSubFieldsOmitted ==
    /\ mpc = "crd" /\ origin = "mapped"
    /\ The(workshop).storage # {} /\ The(The(workshop).storage).storage_class = None
    /\ The(workshop).ingress # {} /\ The(The(workshop).ingress).host = None
    /\ DOMAIN The(crd).spec.storage = {"size"}
    /\ "host" \notin DOMAIN The(crd).spec.ingress

(* C19: create calls the backend once and never retries.  A create request *)
(* makes exactly one create call, scoped to (orchestra.io, v1, workshops)  *)
(* and the request's namespace; when the call fails the failure is         *)
(* answered to the caller and nothing is stored; when it succeeds the      *)
(* response is the mapping of the document the backend returned, 201 with  *)
(* name test-workshop, namespace default and the default spec values for   *)
(* the minimal document of the tests.                                      *)
CreateOnceNoRetry ==
    (req.pc = "done" /\ req.op = "create" /\ req.calls > 0) =>
        LET answer == The(req.answer)
            resp   == The(req.response)
            body   == The(req.body)
        IN  /\ req.calls = 1
            /\ The(req.call) =
                  [method    |-> "create_namespaced_custom_object",
                   group     |-> "orchestra.io",
                   version   |-> "v1",
                   plural    |-> "workshops",
                   namespace |-> req.ns,
                   body      |-> _to_kubernetes_crd(body, req.ns)]
            /\ answer.kind = "raise" =>
                  /\ IsRaised(The(req.service))
                  /\ resp.status_code = 500
            /\ answer.kind = "ok" =>
                  /\ resp.status_code = 201
                  /\ resp.body = _from_kubernetes_crd(pydantic, answer.value)
            /\ (/\ answer.kind = "ok"
                /\ body.name = "test-workshop" /\ req.ns = "default") =>
                  /\ resp.body.name = "test-workshop"
                  /\ resp.body.namespace = "default"
            /\ (answer.kind = "ok" /\ answer.value = MinimalDoc(body.name, req.ns)) =>
                  /\ resp.body.spec.duration = "4h"
                  /\ resp.body.spec.image = "rocker/rstudio:latest"
                  /\ resp.body.spec.resources = WorkshopResources(EmptyDict)

\* test_create_workshop: test-workshop created in default, the backend
\* echoing the minimal document
CreatedTestWorkshop ==
    /\ req.pc = "done" /\ req.op = "create" /\ req.calls = 1
    /\ The(req.body).name = "test-workshop" /\ req.ns = "default"
    /\ The(req.answer) = Ok(MinimalDoc("test-workshop", "default"))
    /\ The(req.response).status_code = 201
    /\ The(req.response).body.name = "test-workshop"
    /\ The(req.response).body.spec.resources.cpu_request = "500m"

(* C20: an unsupported OAuth provider is a configuration failure.  With a  *)
(* provider setting other than github and google the service serves no     *)
(* request: /auth/oauth/callback and /auth/auth-config are never answered  *)
(* under such a setting, and /auth/auth-config never reports a null        *)
(* authorize URL.                                                          *)
ProviderRejectedAtLoad ==
    /\ settings.oauth_provider \notin {"github", "google"} =>
          last.op \notin {"callback", "auth_config"}
    /\ (last.op = "auth_config" /\ ~IsRaised(last.outcome)) =>
          last.outcome.auth_url # {}


----------------------------------------------------------------------------
(* OAuth callback: order of the steps and the claims of the pair *)

\* a call to the provider that returned a json body
ProviderAnswered(answer) ==
    settings.oauth_provider \in SupportedProviders /\ answer.kind = "ok"

\* the subject of a profile: the login, the email when there is no login
SubjectOf(info) ==
    IF "login" \in DOMAIN info /\ info.login # None /\ info.login # ""
    THEN info.login
    ELSE IF "email" \in DOMAIN info THEN info.email
    ELSE None

\* C21: the OAuth callback runs code exchange, then profile fetch, then
\* token issuance, each step only after the one before it succeeded,
\* whatever happens while the handler waits for the provider.  The exchange
\* succeeded when it returned a provider access token; the profile fetch
\* succeeded when it returned a profile that names a user (a login, or an
\* email when the login is absent), not when the provider answered with an
\* error body.  A token pair is issued only when both calls succeeded; in
\* every other case no token is issued and the request fails, and when the
\* exchange returns no provider access token the profile is never fetched.
\* On success the access token's claims are sub = login (the email when
\* the login is absent), user_id, email, name, avatar_url and
\* scopes = ["user"], and the refresh token carries the same sub.
CallbackStepsInOrder ==
    /\ callback.pc = "profile" =>
          /\ ProviderAnswered(callback.exchange)
          /\ "access_token" \in DOMAIN callback.exchange.value
    /\ last.op = "callback" =>
        LET exchanged == /\ ProviderAnswered(last.exchange)
                         /\ "access_token" \in DOMAIN last.exchange.value
            fetched   == /\ exchanged
                         /\ ProviderAnswered(last.profile)
                         /\ SubjectOf(last.profile.value) # None
            info      == last.profile.value
        IN  /\ last.steps = IF fetched THEN <<"exchange", "profile", "issue">>
                            ELSE IF exchanged THEN <<"exchange", "profile">>
                            ELSE <<"exchange">>
            /\ ~fetched =>
                  /\ last.issued = {}
                  /\ IsRaised(last.outcome)
            /\ fetched =>
                  \E access, refresh \in last.issued :
                      /\ last.issued = {access, refresh}
                      /\ ~IsRaised(last.outcome)
                      /\ last.outcome.access_token = access
                      /\ last.outcome.refresh_token = refresh
                      /\ access.payload =
                             [sub        |-> SubjectOf(info),
                              user_id    |-> str_id(info),
                              email      |-> Get(info, "email", None),
                              name       |-> Get(info, "name", None),
                              avatar_url |-> Get(info, "avatar_url", None),
                              scopes     |-> <<"user">>,
                              exp        |-> last.at + access_token_expire_minutes,
                              type       |-> "access"]
                      /\ refresh.payload.type = "refresh"
                      /\ refresh.payload.sub = access.payload.sub
                      /\ DOMAIN refresh.payload = {"sub", "exp", "type"}



----------------------------------------------------------------------------
(* Concurrent Workshop requests.  The handlers of api/routes/workshops.py  *)
(* share the module's WorkshopService, whose only attribute is the client  *)
(* handle; each request runs its own handler, in this process or in        *)
(* another worker: it arrives, its service call is answered by the         *)
(* backend, which serves one call at a time, and it responds from the      *)
(* local variable that holds that answer.  The steps of different requests *)
(* interleave in every order.                                              *)

MaxRequests == 2

\* the Workshop a request is about
Target(r) == IF r.op = "create" THEN The(r.body).name ELSE r.name

\* a service that keeps the answer of its backend call in an attribute that
\* every request reads
HandlerResult_shared(fl, i) ==
    The(fl[CHOOSE j \in DOMAIN fl : fl[j].answer # {}].answer)

\* what the handler of request i holds after its service call: the local
\* variable assigned from the call it made itself
HandlerResult(fl, i) == The(fl[i].answer)

InitConcurrent ==
    /\ InitBuild
    /\ settings = DefaultSettings
    /\ mpc = "idle"
    /\ origin = "none"
    /\ workshop = {}
    /\ namespace = "default"
    /\ crd = {}
    /\ result = {}
    /\ now = 0
    /\ ticks = 0
    /\ tokens = {}
    /\ last = [op |-> "none"]
    /\ cluster \in {<<>>} \cup {<<MinimalDoc(n, "default")>> : n \in Names}
    /\ req = IdleRequest
    /\ pg = IdlePage
    /\ inflight = [i \in 1..MaxRequests |-> IdleRequest]

ConcurrentArrive(i) ==
    /\ inflight[i].pc = "idle"
    /\ \/ \E body \in BodySamples :
             inflight' = [inflight EXCEPT ![i] =
                             Admit([IdleRequest EXCEPT !.op = "create",
                                       !.ns = "default", !.body = {body}])]
       \/ \E name \in Names :
             inflight' = [inflight EXCEPT ![i] =
                             Admit([IdleRequest EXCEPT !.op = "delete",
                                       !.ns = "default", !.name = name])]
    /\ UNCHANGED <<pydantic, pyjwt, callback, settings, mapperVars, authVars, cluster, req, pg>>

\* the request whose backend call has returned into its handler
Called(r, answer) ==
    [r EXCEPT !.pc = "answered", !.calls = @ + 1, !.call = {BackendCall(r)},
              !.answer = {answer}]

ConcurrentCreate(i) ==
    /\ inflight[i].pc = "received" /\ inflight[i].op = "create"
    /\ \E o \in CreateOutcomes(
                    create_namespaced_custom_object(cluster, inflight[i].ns,
                        _to_kubernetes_crd(The(inflight[i].body), inflight[i].ns)),
                    The(inflight[i].body).name, inflight[i].ns) :
         /\ cluster' = o.cluster
         /\ inflight' = [inflight EXCEPT ![i] = Called(@, o.answer)]
    /\ UNCHANGED <<pydantic, pyjwt, callback, settings, mapperVars, authVars, req, pg>>

ConcurrentDelete(i) ==
    /\ inflight[i].pc = "received" /\ inflight[i].op = "delete"
    /\ \E o \in Outcomes(delete_namespaced_custom_object(cluster, inflight[i].ns,
                                                         inflight[i].name)) :
         /\ cluster' = o.cluster
         /\ inflight' = [inflight EXCEPT ![i] = Called(@, o.answer)]
    /\ UNCHANGED <<pydantic, pyjwt, callback, settings, mapperVars, authVars, req, pg>>

\* the handler maps what its service call returned and answers
ConcurrentRespond(i) ==
    /\ inflight[i].pc = "answered"
    /\ inflight' = [inflight EXCEPT ![i] =
                       [@ EXCEPT !.pc = "done",
                                 !.response = {RouteResponse(pydantic, inflight[i],
                                                  HandlerResult(inflight, i))}]]
    /\ UNCHANGED <<pydantic, pyjwt, callback, settings, mapperVars, authVars, cluster, req, pg>>

NextConcurrent ==
    \E i \in 1..MaxRequests :
        \/ ConcurrentArrive(i)
        \/ ConcurrentCreate(i)
        \/ ConcurrentDelete(i)
        \/ ConcurrentRespond(i)

SpecConcurrent == InitConcurrent /\ [][NextConcurrent]_vars

\* the requests that have responded
Responded(op, name) ==
    {i \in DOMAIN inflight : /\ inflight[i].pc = "done"
                             /\ inflight[i].op = op
                             /\ Target(inflight[i]) = name}

\* C22: no coordination between concurrent requests.  In every interleaving
\* of concurrent create and delete requests, each request makes exactly one
\* backend call, its own, and its response is the one the routes derive
\* from the answer to that call, never from the answer to another request's
\* call: a create reports 201 exactly when its own call was answered with
\* the created document and the generic 500 otherwise.  While the backend
\* admits at most one create of a name (no delete of the name succeeded in
\* between and the name was not there before), at most one of the
\* concurrent creates of the name reports success and every other one
\* reports the generic failure.
NoCoordination ==
    /\ \A i \in DOMAIN inflight :
          LET r == inflight[i]
          IN  /\ r.pc \in {"idle", "received"} => r.calls = 0 /\ r.response = {}
              /\ r.pc \in {"answered", "done"} =>
                    r.calls = 1 /\ r.call = {BackendCall(r)}
              /\ r.pc = "done" =>
                    /\ r.response = {RouteResponse(pydantic, r, The(r.answer))}
                    /\ r.op = "create" =>
                          The(r.response).status_code =
                              IF The(r.answer).kind = "ok" THEN 201 ELSE 500
                    /\ r.op = "delete" =>
                          The(r.response).status_code =
                              IF The(r.answer).kind = "ok" THEN 204
                              ELSE IF Is404(The(r.answer)) THEN 404 ELSE 500
    /\ \A name \in Names :
          LET created == {i \in Responded("create", name) :
                             The(inflight[i].response).status_code = 201}
              deleted == {i \in DOMAIN inflight :
                             /\ inflight[i].op = "delete"
                             /\ inflight[i].name = name
                             /\ inflight[i].answer # {}
                             /\ The(inflight[i].answer).kind = "ok"}
          IN  deleted = {} =>
                 /\ Cardinality(created) <= 1
                 /\ \A i \in Responded("create", name) \ created :
                        The(inflight[i].response).status_code = 500

\* two concurrent creates of one name have both responded: one reports
\* success, the other the generic failure caused by the backend's 409
OneOfTwoCreatesSucceeded ==
    \E i, j \in DOMAIN inflight :
        /\ i # j
        /\ {i, j} \subseteq Responded("create", "test-workshop")
        /\ The(inflight[i].response).status_code = 201
        /\ The(inflight[j].response).status_code = 500
        /\ The(inflight[j].answer) = ApiException(409, "AlreadyExists")


----------------------------------------------------------------------------
(* api/core/auth.py: require_admin, and the tokens the OAuth routes issue *)

\* _check_admin returning the user without looking at the scopes
require_admin_unchecked(credentials, t) ==
    get_current_user(credentials, t)

\* the dependency require_admin() returns: get_current_active_user hands on
\* what get_current_user returned or raised, then the scopes are checked
require_admin(credentials, t) ==
    LET current_user == get_current_user(credentials, t)
    IN  IF IsRaised(current_user) THEN current_user
        ELSE IF \A k \in DOMAIN current_user.scopes : current_user.scopes[k] # "admin"
        THEN HTTPException(403, "Admin privileges required")
        ELSE current_user

MaxIssued == 3

\* POST /auth/oauth/callback: the provider answers the profile request
IssueByCallback ==
    /\ callback.pc = "profile"
    /\ \E profile \in ProfileSamples :
          LET r == oauth_callback(settings, callback.exchange, profile, now)
          IN  /\ Cardinality(tokens \cup r.issued) <= MaxIssued
              /\ tokens' = tokens \cup r.issued
              /\ last' = CallbackRecord(callback.exchange, profile, r)
    /\ callback' = IdleCallback
    /\ UNCHANGED <<pydantic, pyjwt, inflight, settings, mapperVars, dirVars, now, ticks>>

\* POST /auth/refresh
IssueByRefresh ==
    \E token \in Presentable(tokens) :
        LET r == refresh_token(token, now)
        IN  /\ Cardinality(tokens \cup r.issued) <= MaxIssued
            /\ tokens' = tokens \cup r.issued
            /\ last' = [op |-> "refresh", token |-> token, at |-> now,
                        outcome |-> r.response, issued |-> r.issued]
            /\ UNCHANGED <<pydantic, pyjwt, inflight, callback, settings, mapperVars, dirVars, now, ticks>>

\* a route that depends on require_admin() is called with a token the
\* service has issued
RequireAdmin ==
    \E token \in tokens :
        /\ last' = [op |-> "require_admin", token |-> token, at |-> now,
                    outcome |-> require_admin({token}, now)]
        /\ UNCHANGED <<pydantic, pyjwt, inflight, callback, settings, mapperVars, dirVars, now, ticks, tokens>>

NextIssued ==
    \/ Tick
    \/ CallbackArrive
    \/ CallbackExchanged
    \/ IssueByCallback
    \/ IssueByRefresh
    \/ RequireAdmin

SpecIssued == InitAuth /\ [][NextIssued]_vars


\* the scopes claim of a token, [] when the token has none or a null one
ScopesOf(token) ==
    LET scopes == Get(token.payload, "scopes", <<>>)
    IN  IF IsNone(scopes) THEN <<>> ELSE scopes

CarriesAdmin(token) ==
    \E k \in DOMAIN ScopesOf(token) : ScopesOf(token)[k] = "admin"

\* the claim as stated: no token issued by a callback or a refresh carries
\* the "admin" scope, and require_admin answers 403 to every issued token
AdminAnswers403 ==
    \A token \in tokens :
        /\ ~CarriesAdmin(token)
        /\ LET a == require_admin({token}, now)
           IN  /\ IsRaised(a)
               /\ a.raised = "HTTPException"
               /\ a.status_code = 403

\* C23: for every sequence of OAuth callbacks and refreshes, no token
\* issued by the service carries the "admin" scope: the access token of a
\* callback carries exactly ["user"], its refresh token and the access token
\* of a refresh carry no scopes.  So require_admin admits no token the
\* service itself has issued: it answers 403 "Admin privileges required" to
\* every issued token that get_current_user accepts, 401 to an issued token
\* that has expired, and to an unexpired issued token whose subject is null
\* 401 or, where jwt.decode refuses such a subject, the AttributeError that
\* verify_token raises.
AdminNeverGranted ==
    /\ \A token \in tokens :
          /\ ~CarriesAdmin(token)
          /\ "scopes" \in DOMAIN token.payload =>
                token.payload.type = "access" /\ token.payload.scopes = <<"user">>
          /\ LET a == require_admin({token}, now)
                 expired == token.payload.exp <= now
                 nosub   == Get(token.payload, "sub", None) = None
             IN  /\ IsRaised(a)
                 /\ a = IF expired
                        THEN HTTPException(401, "Token has expired")
                        ELSE IF nosub /\ pyjwt = ">=2.10"
                        THEN Raised("AttributeError")
                        ELSE IF nosub
                        THEN HTTPException(401, "Could not validate credentials")
                        ELSE HTTPException(403, "Admin privileges required")
    /\ last.op = "callback" =>
          \A token \in last.issued :
              IF token.payload.type = "access"
              THEN ScopesOf(token) = <<"user">>
              ELSE "scopes" \notin DOMAIN token.payload
    /\ last.op = "refresh" =>
          \A token \in last.issued : "scopes" \notin DOMAIN token.payload

\* require_admin has answered 403 to an access token without scopes, which
\* a refresh issued from the refresh token of a callback
RefreshedTokenRefused ==
    /\ last.op = "require_admin"
    /\ last.token.payload.type = "access"
    /\ "scopes" \notin DOMAIN last.token.payload
    /\ \E refresh \in tokens :
          /\ refresh.payload.type = "refresh"
          /\ refresh.payload.sub = last.token.payload.sub
    /\ last.outcome = HTTPException(403, "Admin privileges required")

====
